---- MODULE Spec2Model ----
(***************************************************************************)
(* Order-fulfilment workflow of the restaurant order system:               *)
(*   domain/entities/order.py, domain/entities/order_item.py               *)
(*   application/use_cases/order_service.py                                *)
(*   infrastructure/adapters/external_services/mock_inventory_service.py   *)
(*   infrastructure/adapters/persistence/in_memory_order_repository.py     *)
(* The repository stores references to the Order objects the handlers      *)
(* mutate, so the stored order and the handler's order are one value.      *)
(***************************************************************************)
EXTENDS Integers, Sequences, FiniteSets, TLC

\* ------------------------------------------------------------------ bounds
MaxOrders == 1
MaxLines == 2
MaxClock == 1
MaxPayFail == 2
MaxItems == 3
MaxAdds == 1
MaxUpdates == 2

\* ------------------------------------------------------- program constants
\* money is counted in tenths of a cent, so that a price can lie between two cents;
\* Cent is 0.01, the step of round(x, 2)
Cent == 10
DEFAULT_INVENTORY_LEVEL == 100
MIN_QUANTITY == 1
MAX_QUANTITY == 99
MIN_UNIT_PRICE == 10
MAX_DISCOUNT_PERCENTAGE == 50
MAX_ITEMS_PER_ORDER == 50

PENDING == "pending"
CONFIRMED == "confirmed"
PREPARING == "preparing"
READY == "ready"
DELIVERED == "delivered"
CANCELLED == "cancelled"
OrderStatus == {PENDING, CONFIRMED, PREPARING, READY, DELIVERED, CANCELLED}

\* ------------------------------------------------------------ input domains
Products == {"P1", "P2"}
NoProduct == "P0"
ProductIds == Products \cup {NoProduct}
Customers == {"C1"}
NoCustomer == "C0"
CustomerIds == Customers \cup {NoCustomer}
Quantities == {0, MIN_QUANTITY, MAX_QUANTITY, MAX_QUANTITY + 1}
\* the prices of the sample menu, 12.99 and 10.50
Price == [p \in Products |-> IF p = "P1" THEN 1299 * Cent ELSE 1050 * Cent]
\* requested lines: every quantity of a stored product, one line of a missing product
Line == [product_id : Products, quantity : Quantities]
            \cup {[product_id |-> NoProduct, quantity |-> MIN_QUANTITY]}
LineSeqs == UNION {[1..n -> Line] : n \in 0..MaxLines}
\* create_order inputs: every list of lines for a stored customer, one call for a
\* missing customer
CreateInputs == (Customers \X LineSeqs)
                    \cup {<<NoCustomer, <<[product_id |-> "P1", quantity |-> 1]>> >>}
OrderIds == 1..MaxOrders
\* the orders the lifecycle is run on: two products, the same product twice, and a
\* request whose second line names a missing product
L(pid, q) == [product_id |-> pid, quantity |-> q]
OrderRequests ==
    {<<"C1", <<L("P1", MAX_QUANTITY), L("P2", MIN_QUANTITY)>> >>,
     <<"C1", <<L("P1", MIN_QUANTITY), L("P1", MAX_QUANTITY)>> >>,
     <<"C1", <<L("P2", MIN_QUANTITY), L(NoProduct, MIN_QUANTITY)>> >>}
\* requests of as many lines as an order may have items, and of one line more
LongRequests ==
    {<<"C1", [i \in 1..n |-> L(p, MIN_QUANTITY)]>> :
        n \in {MAX_ITEMS_PER_ORDER, MAX_ITEMS_PER_ORDER + 1}, p \in Products}
\* quantities the Order methods are called with: none, two that add up to the
\* largest quantity of an item, and one above it
EntityQuantities == {0, MAX_QUANTITY \div 2, MAX_QUANTITY - MAX_QUANTITY \div 2,
                     MAX_QUANTITY + 1}
\* the quantity add_item_to_order is called with in the lifecycle
AddQuantities == {MIN_QUANTITY}
\* concurrent callers of create_order, each asking for one line
Threads == {"T1", "T2"}
ConcQuantities == {MIN_QUANTITY, MAX_QUANTITY}
Idle == [pc |-> "idle", pid |-> NoProduct, qty |-> 0, cur |-> 0]
NotificationKinds == {"confirmation", "status_update", "delivery", "cancelled"}

VARIABLES
    orders,      \* InMemoryOrderRepository._orders: order id -> Order
    inventory,   \* MockInventoryService._inventory (default level applied)
    available,   \* Product.available of every stored product
    customers,   \* ids stored in the customer repository
    sent,        \* notifications sent so far: <<order id, kind>> -> count
    now,         \* the value datetime.now() returns
    held,        \* history: per order, quantity reserved minus quantity released
    payFailures, \* history: number of failed payments so far
    adds,        \* history: number of add_item_to_order calls that reserved stock
    last,        \* history: the last call, its result and port calls
    thr,         \* concurrent create_order calls: position and locals of each
    order_item,  \* an OrderItem held by a caller of the entity, NoItem before one is built
    price,       \* the price of each product in the product repository
    paid,        \* history: per order, the payments the gateway reported successful
    trail        \* history: the statuses the order under test has had, in order

vars == <<orders, inventory, available, customers, sent, now, held, payFailures, adds,
          last, thr, order_item, price, paid, trail>>

\* ----------------------------------------------------------------- helpers
Max(S) == CHOOSE x \in S : \A y \in S : y <= x

RECURSIVE SumSeq(_)
SumSeq(s) == IF s = <<>> THEN 0 ELSE s[1] + SumSeq(Tail(s))

NoLast ==
    [op |-> "none", oid |-> 0, pay |-> "none", line |-> 0, result |-> "none",
     events |-> <<>>]

ZeroHeld == [p \in Products |-> 0]

\* no OrderItem has been built yet
NoItem == [product_id |-> "", product_name |-> "", quantity |-> 0, unit_price |-> 0]

\* ------------------------------------------------ domain/entities/order.py
\* mutant: READY may also go to CANCELLED
IsValidStatusTransitionReadyCancel(current, new) ==
    CASE current = PENDING   -> new \in {CONFIRMED, CANCELLED}
      [] current = CONFIRMED -> new \in {PREPARING, CANCELLED}
      [] current = PREPARING -> new \in {READY, CANCELLED}
      [] current = READY     -> new \in {DELIVERED, CANCELLED}
      [] OTHER               -> FALSE

\* mutant: a status may be set to itself
IsValidStatusTransitionSelf(current, new) ==
    CASE current = new       -> TRUE
      [] current = PENDING   -> new \in {CONFIRMED, CANCELLED}
      [] current = CONFIRMED -> new \in {PREPARING, CANCELLED}
      [] current = PREPARING -> new \in {READY, CANCELLED}
      [] current = READY     -> new \in {DELIVERED}
      [] OTHER               -> FALSE

\* mutant: a cancelled order may be reopened
IsValidStatusTransitionReopen(current, new) ==
    CASE current = PENDING   -> new \in {CONFIRMED, CANCELLED}
      [] current = CONFIRMED -> new \in {PREPARING, CANCELLED}
      [] current = PREPARING -> new \in {READY, CANCELLED}
      [] current = READY     -> new \in {DELIVERED}
      [] current = CANCELLED -> new \in {PENDING}
      [] OTHER               -> FALSE

\* mutant: a ready order cannot be delivered
IsValidStatusTransitionNoDelivery(current, new) ==
    CASE current = PENDING   -> new \in {CONFIRMED, CANCELLED}
      [] current = CONFIRMED -> new \in {PREPARING, CANCELLED}
      [] current = PREPARING -> new \in {READY, CANCELLED}
      [] OTHER               -> FALSE

\* Order._is_valid_status_transition
IsValidStatusTransition(current, new) ==
    CASE current = PENDING   -> new \in {CONFIRMED, CANCELLED}
      [] current = CONFIRMED -> new \in {PREPARING, CANCELLED}
      [] current = PREPARING -> new \in {READY, CANCELLED}
      [] current = READY     -> new \in {DELIVERED}
      [] current = DELIVERED -> FALSE
      [] current = CANCELLED -> FALSE
      [] OTHER               -> FALSE

\* Order.update_status: the order after the call, and whether it raised
UpdateStatus(order, new, t) ==
    IF ~IsValidStatusTransition(order.status, new)
    THEN [raised |-> TRUE, order |-> order]
    ELSE [raised |-> FALSE,
          order |-> [order EXCEPT !.status = new, !.updated_at = t]]

\* mutant: an order in preparation can be cancelled too
CanBeCancelledPreparing(order) == order.status \in {PENDING, CONFIRMED, PREPARING}

\* Order.can_be_cancelled
CanBeCancelled(order) == order.status \in {PENDING, CONFIRMED}

\* Order.cancel
Cancel(order, t) ==
    IF ~CanBeCancelled(order)
    THEN [raised |-> TRUE, order |-> order]
    ELSE UpdateStatus(order, CANCELLED, t)

\* Order._find_item_by_product_id: index of the first item of the product, 0 if none
FindItemByProductId(items, pid) ==
    IF \E i \in DOMAIN items : items[i].product_id = pid
    THEN CHOOSE i \in DOMAIN items :
            /\ items[i].product_id = pid
            /\ \A j \in DOMAIN items : items[j].product_id = pid => i <= j
    ELSE 0

\* OrderItem._validate_order_item (product ids and names of stored products are non-empty)
ValidOrderItem(quantity, unit_price) ==
    /\ quantity >= MIN_QUANTITY
    /\ quantity <= MAX_QUANTITY
    /\ unit_price >= MIN_UNIT_PRICE

\* OrderItem.update_quantity: does the call accept new_quantity
ValidQuantity(new_quantity) ==
    /\ new_quantity >= MIN_QUANTITY
    /\ new_quantity <= MAX_QUANTITY

\* OrderItem(...) as built from a product
NewOrderItem(pid, quantity) ==
    [product_id |-> pid, quantity |-> quantity, unit_price |-> price[pid]]

\* mutant: items are added whatever the status of the order
AddItemAnyStatus(order, pid, quantity, t) ==
    [raised |-> FALSE,
     order |-> [order EXCEPT !.items = Append(order.items, NewOrderItem(pid, quantity)),
                             !.updated_at = t]]

\* Order.add_item
AddItem(order, pid, quantity, t) ==
    LET i == FindItemByProductId(order.items, pid) IN
    IF order.status # PENDING THEN [raised |-> TRUE, order |-> order]
    ELSE IF ~available[pid] THEN [raised |-> TRUE, order |-> order]
    ELSE IF i # 0
    THEN IF ~ValidQuantity(order.items[i].quantity + quantity)
         THEN [raised |-> TRUE, order |-> order]
         ELSE [raised |-> FALSE,
               order |-> [order EXCEPT
                            !.items[i].quantity = order.items[i].quantity + quantity,
                            !.updated_at = t]]
    ELSE IF ~ValidOrderItem(quantity, price[pid])
         THEN [raised |-> TRUE, order |-> order]
         ELSE [raised |-> FALSE,
               order |-> [order EXCEPT
                            !.items = Append(order.items, NewOrderItem(pid, quantity)),
                            !.updated_at = t]]

\* the list comprehension of Order.remove_item
RECURSIVE WithoutProduct(_, _)
WithoutProduct(items, pid) ==
    IF items = <<>> THEN <<>>
    ELSE IF Head(items).product_id = pid
         THEN WithoutProduct(Tail(items), pid)
         ELSE <<Head(items)>> \o WithoutProduct(Tail(items), pid)

\* Order.remove_item
RemoveItem(order, pid, t) ==
    IF order.status # PENDING THEN [raised |-> TRUE, order |-> order]
    ELSE [raised |-> FALSE,
          order |-> [order EXCEPT !.items = WithoutProduct(order.items, pid),
                                  !.updated_at = t]]

\* mutant: update_item_quantity assigns any positive quantity
UpdateItemQuantityUnchecked(order, pid, new_quantity, t) ==
    LET i == FindItemByProductId(order.items, pid) IN
    IF order.status # PENDING THEN [raised |-> TRUE, order |-> order]
    ELSE IF i = 0 THEN [raised |-> TRUE, order |-> order]
    ELSE IF new_quantity <= 0
    THEN [raised |-> FALSE,
          order |-> [order EXCEPT !.items = WithoutProduct(order.items, pid),
                                  !.updated_at = t]]
    ELSE [raised |-> FALSE,
          order |-> [order EXCEPT !.items[i].quantity = new_quantity,
                                  !.updated_at = t]]

\* Order.update_item_quantity
UpdateItemQuantity(order, pid, new_quantity, t) ==
    LET i == FindItemByProductId(order.items, pid) IN
    IF order.status # PENDING THEN [raised |-> TRUE, order |-> order]
    ELSE IF i = 0 THEN [raised |-> TRUE, order |-> order]
    ELSE IF new_quantity <= 0
    THEN [raised |-> FALSE,
          order |-> [RemoveItem(order, pid, t).order EXCEPT !.updated_at = t]]
    ELSE IF ~ValidQuantity(new_quantity) THEN [raised |-> TRUE, order |-> order]
    ELSE [raised |-> FALSE,
          order |-> [order EXCEPT !.items[i].quantity = new_quantity,
                                  !.updated_at = t]]

\* mutant: an order may have any number of items
ValidOrderUnlimited(items) == TRUE

\* Order._validate_order, for an order of a stored customer
ValidOrder(items) == Len(items) <= MAX_ITEMS_PER_ORDER

\* ---------------------------------------------- mock_inventory_service.py
\* MockInventoryService.check_product_availability
CheckProductAvailability(inv, pid, quantity) == inv[pid] >= quantity

\* MockInventoryService.reserve_products: first loop (can every product be reserved)
CanReserve(inv, pq) == \A p \in DOMAIN pq : inv[p] >= pq[p]

\* MockInventoryService.reserve_products: second loop
ReserveProducts(inv, pq) ==
    [p \in Products |-> IF p \in DOMAIN pq THEN inv[p] - pq[p] ELSE inv[p]]

\* mutant: the release is skipped
ReleaseProductsSkipped(inv, pq) == inv

\* MockInventoryService.release_products
ReleaseProducts(inv, pq) ==
    [p \in Products |-> IF p \in DOMAIN pq THEN inv[p] + pq[p] ELSE inv[p]]

\* the dict {item.product_id: item.quantity for item in order.items}: a later
\* item of the same product overwrites an earlier one
ItemQuantities(items) ==
    [p \in {items[i].product_id : i \in DOMAIN items} |->
        items[Max({i \in DOMAIN items : items[i].product_id = p})].quantity]

\* a product/quantity dict as a total function, 0 for the products it lacks
AsTotal(pq) == [p \in Products |-> IF p \in DOMAIN pq THEN pq[p] ELSE 0]

\* ------------------------------------------- use_cases/order_service.py
EmptyDict == [p \in {} |-> 0]

\* product_quantities[product.id] = quantity
DictPut(pq, pid, quantity) ==
    [p \in (DOMAIN pq) \cup {pid} |-> IF p = pid THEN quantity ELSE pq[p]]

\* mutant: the availability flag is ignored
ProductUsableIgnoringFlag(pid) == pid \in Products

\* create_order: `not product or not product.available` negated
ProductUsable(pid) == pid \in Products /\ available[pid]

\* create_order: the checks of the loop body on one requested line; the inventory
\* is not changed inside the loop, so a line is judged on its own
LineError(line, inv) ==
    LET pid == line.product_id
        quantity == line.quantity
    IN  IF ~ProductUsable(pid) THEN "product_not_available"
        ELSE IF quantity <= 0 THEN "quantity_not_positive"
        ELSE IF ~CheckProductAvailability(inv, pid, quantity)
             THEN "insufficient_inventory"
        ELSE IF ~ValidOrderItem(quantity, price[pid]) THEN "invalid_item"
        ELSE "none"

\* create_order: the loop over the requested lines; the first failing line ends it
ValidateLines(items, inv, order_items, pq) ==
    LET bad == {i \in DOMAIN items : LineError(items[i], inv) # "none"}
        first == IF bad = {} THEN 0 ELSE CHOOSE i \in bad : \A j \in bad : i <= j
        passed == IF bad = {} THEN items ELSE SubSeq(items, 1, first - 1)
        added == [i \in DOMAIN passed |->
                     NewOrderItem(passed[i].product_id, passed[i].quantity)]
        iq == ItemQuantities(passed)
    IN  [err |-> IF bad = {} THEN "none" ELSE LineError(items[first], inv),
         line |-> IF bad = {} THEN 0 ELSE Len(order_items) + first,
         order_items |-> order_items \o added,
         pq |-> [p \in (DOMAIN pq) \cup (DOMAIN iq) |->
                    IF p \in DOMAIN iq THEN iq[p] ELSE pq[p]]]

\* create_order: how the call ends ("none": an order is returned)
CreateError(cid, items) ==
    LET v == ValidateLines(items, inventory, <<>>, EmptyDict) IN
    IF cid \notin customers THEN "customer_not_found"
    ELSE IF items = <<>> THEN "no_items"
    ELSE IF v.err # "none" THEN v.err
    ELSE IF ~CanReserve(inventory, v.pq) THEN "reserve_failed"
    ELSE IF ~ValidOrder(v.order_items) THEN "invalid_order"
    ELSE "none"

\* mutant: the notification goes out twice
NotifyTwice(snt, oid, kind) == [snt EXCEPT ![<<oid, kind>>] = @ + 2]

\* sent[<<oid, kind>>] incremented
Notify(snt, oid, kind) == [snt EXCEPT ![<<oid, kind>>] = @ + 1]

\* held[oid] changed by a reservation (sign = 1) or a release (sign = -1) of pq
Hold(h, oid, pq, sign) ==
    [h EXCEPT ![oid] = [p \in Products |-> h[oid][p] + sign * AsTotal(pq)[p]]]

\* OrderService.create_order
CreateOrder(cid, items) ==
    LET v == ValidateLines(items, inventory, <<>>, EmptyDict)
        err == CreateError(cid, items)
        order == [customer_id |-> cid, items |-> v.order_items, status |-> PENDING,
                  created_at |-> now, updated_at |-> now,
                  notes |-> ""]
        reserved == ReserveProducts(inventory, v.pq)
    IN  /\ err = "none" => Len(orders) < MaxOrders
        /\ CASE err = "none" ->
                  /\ orders' = Append(orders, order)
                  /\ inventory' = reserved
                  /\ held' = Append(held, AsTotal(v.pq))
             [] err = "invalid_order" ->
                  /\ inventory' = ReleaseProducts(reserved, v.pq)
                  /\ UNCHANGED <<orders, held>>
             [] OTHER -> UNCHANGED <<orders, inventory, held>>
        /\ last' = [NoLast EXCEPT
                      !.op = "create_order",
                      !.oid = IF err = "none" THEN Len(orders) + 1 ELSE 0,
                      !.result = IF err = "none" THEN "order" ELSE err,
                      !.line = IF err = v.err THEN v.line ELSE 0,
                      !.events = CASE err = "none" -> <<"reserve_products", "save">>
                                   [] err = "invalid_order" ->
                                        <<"reserve_products", "release_products">>
                                   [] err = "reserve_failed" -> <<"reserve_products">>
                                   [] OTHER -> <<>>]
        /\ UNCHANGED <<available, customers, sent, now, payFailures, adds,
                       thr, order_item, price, paid, trail>>

\* mutant: the status of the order is not looked at before the payment is tried
ConfirmOrderUnchecked(oid, payOk) ==
    /\ last' = [NoLast EXCEPT !.op = "confirm_order", !.oid = oid,
                              !.pay = IF payOk THEN "success" ELSE "failure",
                              !.result = "false", !.events = <<"process_payment">>]
    /\ UNCHANGED <<orders, inventory, available, customers, sent, now, held,
                   payFailures, adds, thr, order_item, price, paid, trail>>

\* mutant: a payment failure cancels the order
ConfirmOrderFailureCancels(oid, payOk) ==
    /\ oid \in DOMAIN orders
    /\ orders[oid].status = PENDING
    /\ ~payOk
    /\ payFailures < MaxPayFail
    /\ orders' = [orders EXCEPT ![oid].status = CANCELLED]
    /\ payFailures' = payFailures + 1
    /\ last' = [NoLast EXCEPT !.op = "confirm_order", !.oid = oid, !.pay = "failure",
                              !.result = "false", !.events = <<"process_payment">>]
    /\ UNCHANGED <<inventory, available, customers, sent, now, held, adds,
                   thr, order_item, price, paid, trail>>

\* mutant: confirm_order tries the payment whatever the status of the order
ConfirmOrderPayingAgain(oid, payOk) ==
    /\ oid \in DOMAIN orders
    /\ payOk
    /\ paid[oid] < 2
    /\ paid' = [paid EXCEPT ![oid] = @ + 1]
    /\ last' = [NoLast EXCEPT !.op = "confirm_order", !.oid = oid, !.pay = "success",
                              !.result = "true", !.events = <<"process_payment">>]
    /\ UNCHANGED <<orders, inventory, available, customers, sent, now, held,
                   payFailures, adds, thr, order_item, price, trail>>

\* OrderService.confirm_order; payOk is what PaymentGateway.process_payment reports
ConfirmOrder(oid, payOk) ==
    LET found == oid \in DOMAIN orders
        order == orders[oid]
        err == IF ~found THEN "order_not_found"
               ELSE IF order.status # PENDING THEN "not_pending"
               ELSE IF order.customer_id \notin customers THEN "customer_not_found"
               ELSE "none"
        pq == ItemQuantities(order.items)
        u == UpdateStatus(order, CONFIRMED, now)
        base == [NoLast EXCEPT !.op = "confirm_order", !.oid = oid]
    IN  IF err # "none"
        THEN /\ last' = [base EXCEPT !.result = "raised"]
             /\ UNCHANGED <<orders, inventory, available, customers, sent, now, held,
                            payFailures, adds, thr, order_item, price, paid, trail>>
        ELSE IF ~payOk
        THEN /\ payFailures < MaxPayFail
             /\ inventory' = ReleaseProducts(inventory, pq)
             /\ held' = Hold(held, oid, pq, -1)
             /\ payFailures' = payFailures + 1
             /\ last' = [base EXCEPT !.pay = "failure", !.result = "false",
                            !.events = <<"process_payment", "release_products">>]
             /\ UNCHANGED <<orders, available, customers, sent, now, adds,
                            thr, order_item, price, paid, trail>>
        ELSE IF u.raised
        THEN /\ paid' = [paid EXCEPT ![oid] = @ + 1]
             /\ last' = [base EXCEPT !.pay = "success", !.result = "raised",
                            !.events = <<"process_payment">>]
             /\ UNCHANGED <<orders, inventory, available, customers, sent, now, held,
                            payFailures, adds, thr, order_item, price, trail>>
        ELSE /\ orders' = [orders EXCEPT ![oid] = u.order]
             /\ sent' = Notify(sent, oid, "confirmation")
             /\ paid' = [paid EXCEPT ![oid] = @ + 1]
             /\ last' = [base EXCEPT !.pay = "success", !.result = "true",
                            !.events = <<"process_payment", "save",
                                         "send_order_confirmation">>]
             /\ UNCHANGED <<inventory, available, customers, now, held, payFailures, adds,
                            thr, order_item, price, trail>>

\* OrderService.update_order_status as a function of the stores it reads and writes:
\* the result, the stores after the call and the port calls made
DoUpdateOrderStatus(ords, inv, snt, hld, oid, new_status, t) ==
    LET order == ords[oid]
        old_status == order.status
        u == UpdateStatus(order, new_status, t)
        pq == ItemQuantities(order.items)
        same(r) == [result |-> r, orders |-> ords, inventory |-> inv, sent |-> snt,
                    held |-> hld, events |-> <<>>]
        release == new_status = CANCELLED /\ old_status \in {PENDING, CONFIRMED}
        snt1 == Notify(snt, oid, "status_update")
        snt2 == IF new_status = DELIVERED THEN Notify(snt1, oid, "delivery") ELSE snt1
        snt3 == IF new_status = CANCELLED THEN Notify(snt2, oid, "cancelled") ELSE snt2
    IN  IF oid \notin DOMAIN ords THEN same("raised")
        ELSE IF order.customer_id \notin customers THEN same("raised")
        ELSE IF u.raised THEN same("raised")
        ELSE [result |-> "true",
              orders |-> [ords EXCEPT ![oid] = u.order],
              inventory |-> IF release THEN ReleaseProducts(inv, pq) ELSE inv,
              sent |-> snt3,
              held |-> IF release THEN Hold(hld, oid, pq, -1) ELSE hld,
              events |-> <<"save", "send_status_update">>
                         \o (IF new_status = DELIVERED
                             THEN <<"send_delivery_notification">> ELSE <<>>)
                         \o (IF new_status = CANCELLED
                             THEN <<"send_order_cancelled">> ELSE <<>>)
                         \o (IF release THEN <<"release_products">> ELSE <<>>)]

\* OrderService.update_order_status
UpdateOrderStatus(oid, new_status) ==
    LET r == DoUpdateOrderStatus(orders, inventory, sent, held, oid, new_status, now) IN
    /\ orders' = r.orders
    /\ inventory' = r.inventory
    /\ sent' = r.sent
    /\ held' = r.held
    /\ last' = [NoLast EXCEPT !.op = "update_order_status", !.oid = oid,
                   !.result = r.result, !.events = r.events]
    /\ UNCHANGED <<available, customers, now, payFailures, adds,
                   thr, order_item, price, paid, trail>>

\* OrderService.cancel_order
CancelOrder(oid) ==
    LET found == oid \in DOMAIN orders
        order == orders[oid]
        c == Cancel(order, now)
        cancelled == [orders EXCEPT ![oid] = c.order]
        r == DoUpdateOrderStatus(cancelled, inventory, sent, held, oid, CANCELLED, now)
        base == [NoLast EXCEPT !.op = "cancel_order", !.oid = oid]
    IN  IF ~found \/ ~CanBeCancelled(order) \/ c.raised
        THEN /\ last' = [base EXCEPT !.result = "false"]
             /\ UNCHANGED <<orders, inventory, available, customers, sent, now, held,
                            payFailures, adds, thr, order_item, price, paid, trail>>
        ELSE /\ orders' = r.orders
             /\ inventory' = r.inventory
             /\ sent' = r.sent
             /\ held' = r.held
             /\ last' = [base EXCEPT
                           !.result = IF r.result = "true" THEN "true" ELSE "false",
                           !.events = <<"save">> \o r.events]
             /\ UNCHANGED <<available, customers, now, payFailures, adds,
                            thr, order_item, price, paid, trail>>

\* mutant: a missing order or product is reported by raising
AddItemToOrderRaising(oid, pid, quantity) ==
    /\ last' = [NoLast EXCEPT
                  !.op = "add_item_to_order", !.oid = oid,
                  !.result = IF oid \in DOMAIN orders /\ pid \in Products
                             THEN "false" ELSE "raised"]
    /\ UNCHANGED <<orders, inventory, available, customers, sent, now, held,
                   payFailures, adds, thr, order_item, price, paid, trail>>

\* OrderService.add_item_to_order
AddItemToOrder(oid, pid, quantity) ==
    LET found == oid \in DOMAIN orders /\ pid \in Products
        order == orders[oid]
        pq == DictPut(EmptyDict, pid, quantity)
        a == AddItem(order, pid, quantity, now)
        base == [NoLast EXCEPT !.op = "add_item_to_order", !.oid = oid]
    IN  IF ~found \/ ~CheckProductAvailability(inventory, pid, quantity)
        THEN /\ last' = [base EXCEPT !.result = "false"]
             /\ UNCHANGED <<orders, inventory, available, customers, sent, now, held,
                            payFailures, adds, thr, order_item, price, paid, trail>>
        ELSE IF ~CanReserve(inventory, pq)
        THEN /\ last' = [base EXCEPT !.result = "false",
                                     !.events = <<"reserve_products">>]
             /\ UNCHANGED <<orders, inventory, available, customers, sent, now, held,
                            payFailures, adds, thr, order_item, price, paid, trail>>
        ELSE /\ adds < MaxAdds
             /\ adds' = adds + 1
             /\ inventory' = ReserveProducts(inventory, pq)
             /\ held' = Hold(held, oid, pq, 1)
             /\ orders' = [orders EXCEPT ![oid] = a.order]
             /\ last' = [base EXCEPT
                           !.result = IF a.raised THEN "false" ELSE "true",
                           !.events = IF a.raised THEN <<"reserve_products">>
                                      ELSE <<"reserve_products", "save">>]
             /\ UNCHANGED <<available, customers, sent, now, payFailures,
                            thr, order_item, price, paid, trail>>

\* OrderService.remove_item_from_order
RemoveItemFromOrder(oid, pid) ==
    LET found == oid \in DOMAIN orders
        order == orders[oid]
        i == FindItemByProductId(order.items, pid)
        r == RemoveItem(order, pid, now)
        pq == DictPut(EmptyDict, pid, order.items[i].quantity)
        base == [NoLast EXCEPT !.op = "remove_item_from_order", !.oid = oid]
    IN  IF ~found \/ i = 0 \/ r.raised
        THEN /\ last' = [base EXCEPT !.result = "false"]
             /\ UNCHANGED <<orders, inventory, available, customers, sent, now, held,
                            payFailures, adds, thr, order_item, price, paid, trail>>
        ELSE /\ orders' = [orders EXCEPT ![oid] = r.order]
             /\ inventory' = ReleaseProducts(inventory, pq)
             /\ held' = Hold(held, oid, pq, -1)
             /\ last' = [base EXCEPT !.result = "true",
                                     !.events = <<"save", "release_products">>]
             /\ UNCHANGED <<available, customers, sent, now, payFailures, adds,
                            thr, order_item, price, paid, trail>>

\* ProductService.make_product_unavailable / make_product_available
SetProductAvailable(pid, flag) ==
    /\ pid \in Products
    /\ available[pid] # flag
    /\ available' = [available EXCEPT ![pid] = flag]
    /\ last' = [NoLast EXCEPT !.op = "set_product_available"]
    /\ UNCHANGED <<orders, inventory, customers, sent, now, held, payFailures, adds,
                            thr, order_item, price, paid, trail>>

\* time passes between two calls
Tick ==
    /\ now < MaxClock
    /\ now' = now + 1
    /\ last' = [NoLast EXCEPT !.op = "tick"]
    /\ UNCHANGED <<orders, inventory, available, customers, sent, held, payFailures, adds,
                            thr, order_item, price, paid, trail>>

\* the state main() builds: empty repositories but for the sample products and a
\* registered customer, every product at the default inventory level
Init ==
    /\ orders = <<>>
    /\ inventory = [p \in Products |-> DEFAULT_INVENTORY_LEVEL]
    /\ available = [p \in Products |-> TRUE]
    /\ customers = Customers
    /\ sent = [k \in (1..MaxOrders) \X NotificationKinds |-> 0]
    /\ now = 0
    /\ held = <<>>
    /\ payFailures = 0
    /\ adds = 0
    /\ last = NoLast
    /\ thr = [t \in Threads |-> Idle]
    /\ order_item = NoItem
    /\ price = Price
    /\ paid = [o \in 1..MaxOrders |-> 0]
    /\ trail = <<>>

\* the order workflow on a fixed set of order requests
Next ==
    \/ \E in \in OrderRequests : CreateOrder(in[1], in[2])
    \/ \E oid \in OrderIds, payOk \in BOOLEAN : ConfirmOrder(oid, payOk)
    \/ \E oid \in OrderIds, s \in OrderStatus : UpdateOrderStatus(oid, s)
    \/ \E oid \in OrderIds : CancelOrder(oid)
    \/ \E oid \in OrderIds, pid \in ProductIds, q \in AddQuantities :
            AddItemToOrder(oid, pid, q)
    \/ \E oid \in OrderIds, pid \in ProductIds : RemoveItemFromOrder(oid, pid)
    \/ Tick

Spec == Init /\ [][Next]_vars

\* order creation on every list of requested lines, with products switched on and off
NextCreate ==
    \/ \E in \in CreateInputs : CreateOrder(in[1], in[2])
    \/ \E in \in LongRequests : CreateOrder(in[1], in[2])
    \/ \E pid \in Products, flag \in BOOLEAN : SetProductAvailable(pid, flag)

SpecCreate == Init /\ [][NextCreate]_vars

\* --------------------------------------- create_order called concurrently
\* Each step is one read or one write of the shared inventory dict or order store;
\* the code takes no lock, so the steps of two calls interleave freely.
ConcFrame == <<available, customers, sent, now, payFailures, adds, last,
               order_item, price, paid, trail>>

\* a caller enters create_order(customer, [{product_id: pid, quantity: qty}])
ConcCall(t, pid, qty) ==
    /\ thr[t].pc = "idle"
    /\ thr' = [thr EXCEPT ![t] = [Idle EXCEPT !.pc = "check", !.pid = pid, !.qty = qty]]
    /\ UNCHANGED <<orders, inventory, held, ConcFrame>>

\* create_order: the checks of the loop body, check_product_availability among them
ConcCheck(t) ==
    /\ thr[t].pc = "check"
    /\ thr' = [thr EXCEPT ![t].pc =
                  IF /\ ProductUsable(thr[t].pid)
                     /\ thr[t].qty > 0
                     /\ CheckProductAvailability(inventory, thr[t].pid, thr[t].qty)
                     /\ ValidOrderItem(thr[t].qty, price[thr[t].pid])
                  THEN "reserve_check" ELSE "raised"]
    /\ UNCHANGED <<orders, inventory, held, ConcFrame>>

\* reserve_products: the first loop reads the level and compares; on False
\* create_order raises "Failed to reserve inventory"
ConcReserveCheck(t) ==
    /\ thr[t].pc = "reserve_check"
    /\ thr' = [thr EXCEPT ![t].pc =
                  IF CanReserve(inventory, DictPut(EmptyDict, thr[t].pid, thr[t].qty))
                  THEN "reserve_read" ELSE "reserve_failed"]
    /\ UNCHANGED <<orders, inventory, held, ConcFrame>>

\* reserve_products: the second loop reads the level again ...
ConcReserveRead(t) ==
    /\ thr[t].pc = "reserve_read"
    /\ thr' = [thr EXCEPT ![t].pc = "reserve_write", ![t].cur = inventory[thr[t].pid]]
    /\ UNCHANGED <<orders, inventory, held, ConcFrame>>

\* ... and writes the level it read minus the quantity
ConcReserveWrite(t) ==
    /\ thr[t].pc = "reserve_write"
    /\ inventory' = [inventory EXCEPT ![thr[t].pid] = thr[t].cur - thr[t].qty]
    /\ thr' = [thr EXCEPT ![t].pc = "save"]
    /\ UNCHANGED <<orders, held, ConcFrame>>

\* create_order: the order is built and saved, the call returns it
ConcSave(t) ==
    /\ thr[t].pc = "save"
    /\ orders' = Append(orders,
                        [customer_id |-> "C1",
                         items |-> <<NewOrderItem(thr[t].pid, thr[t].qty)>>,
                         status |-> PENDING, created_at |-> now, updated_at |-> now,
                         notes |-> ""])
    /\ held' = Append(held, AsTotal(DictPut(EmptyDict, thr[t].pid, thr[t].qty)))
    /\ thr' = [thr EXCEPT ![t].pc = "returned"]
    /\ UNCHANGED <<inventory, ConcFrame>>

NextConc ==
    \/ \E t \in Threads, pid \in Products, qty \in ConcQuantities : ConcCall(t, pid, qty)
    \/ \E t \in Threads : ConcCheck(t)
    \/ \E t \in Threads : ConcReserveCheck(t)
    \/ \E t \in Threads : ConcReserveRead(t)
    \/ \E t \in Threads : ConcReserveWrite(t)
    \/ \E t \in Threads : ConcSave(t)

SpecConc == Init /\ [][NextConc]_vars

\* ------------------------------------- the inventory adapters called directly
\* A product_quantities dict is a list of lines with distinct products, in insertion
\* order. Releases are capped at the default level so that the levels stay bounded.
HalfLevel == DEFAULT_INVENTORY_LEVEL \div 2
InvQuantities == {HalfLevel, MAX_QUANTITY}
InvMaps ==
    {<<>>}
        \cup {<<L(p, q)>> : p \in Products, q \in InvQuantities}
        \cup {<<L(m[1], m[3]), L(m[2], m[4])>> :
                m \in {x \in Products \X Products \X InvQuantities \X InvQuantities :
                          x[1] # x[2]}}
InvFrame == <<orders, available, customers, sent, now, held, payFailures, adds,
              thr, order_item, price, paid, trail>>
ReleaseAllowed(m) ==
    \A i \in DOMAIN m : inventory[m[i].product_id] + m[i].quantity <= DEFAULT_INVENTORY_LEVEL

\* the record of a direct call of an inventory adapter
InvCall(op, m, result) ==
    [op |-> op, pq |-> m, result |-> result, before |-> inventory,
     undo |-> op = "release_products" /\ last.op = "reserve_products"
                 /\ last.result = "true" /\ last.pq = m,
     undone |-> IF last.op = "reserve_products" THEN last.before ELSE inventory]

\* MockInventoryService.reserve_products(product_quantities)
InvReserveProducts(m) ==
    LET pq == ItemQuantities(m) IN
    /\ IF CanReserve(inventory, pq)
       THEN /\ inventory' = ReserveProducts(inventory, pq)
            /\ last' = InvCall("reserve_products", m, "true")
       ELSE /\ inventory' = inventory
            /\ last' = InvCall("reserve_products", m, "false")
    /\ UNCHANGED InvFrame

\* MockInventoryService.release_products(product_quantities)
InvReleaseProducts(m) ==
    /\ ReleaseAllowed(m)
    /\ inventory' = ReleaseProducts(inventory, ItemQuantities(m))
    /\ last' = InvCall("release_products", m, "true")
    /\ UNCHANGED InvFrame

NextInv ==
    \/ \E m \in InvMaps : InvReserveProducts(m)
    \/ \E m \in InvMaps : InvReleaseProducts(m)

SpecInv == Init /\ [][NextInv]_vars

\* adapters/services.py, MockInventoryService.reserve_products: one loop that
\* decrements product after product and stops at the first that is short
RECURSIVE LegacyReserveLoop(_, _)
LegacyReserveLoop(inv, m) ==
    IF m = <<>> THEN [ok |-> TRUE, inventory |-> inv]
    ELSE LET product_id == Head(m).product_id
             quantity == Head(m).quantity
             current == inv[product_id]
         IN  IF current >= quantity
             THEN LegacyReserveLoop([inv EXCEPT ![product_id] = current - quantity],
                                    Tail(m))
             ELSE [ok |-> FALSE, inventory |-> inv]

\* adapters/services.py, MockInventoryService.reserve_products(product_quantities)
LegacyInvReserveProducts(m) ==
    LET r == LegacyReserveLoop(inventory, m) IN
    /\ inventory' = r.inventory
    /\ last' = InvCall("reserve_products", m, IF r.ok THEN "true" ELSE "false")
    /\ UNCHANGED InvFrame

\* adapters/services.py, MockInventoryService.release_products
LegacyReleaseProducts(inv, pq) ==
    [p \in Products |-> IF p \in DOMAIN pq THEN inv[p] + pq[p] ELSE inv[p]]

\* adapters/services.py, MockInventoryService.release_products(product_quantities)
LegacyInvReleaseProducts(m) ==
    /\ ReleaseAllowed(m)
    /\ inventory' = LegacyReleaseProducts(inventory, ItemQuantities(m))
    /\ last' = InvCall("release_products", m, "true")
    /\ UNCHANGED InvFrame

NextLegacyInv ==
    \/ \E m \in InvMaps : LegacyInvReserveProducts(m)
    \/ \E m \in InvMaps : LegacyInvReleaseProducts(m)

SpecLegacyInv == Init /\ [][NextLegacyInv]_vars

\* ------------------------------------------ application/services.py (legacy)
\* adapters/services.py, MockInventoryService.check_product_availability
LegacyCheckProductAvailability(inv, pid, quantity) == inv[pid] >= quantity

\* application/services.py, create_order: the checks of the loop body on one line
LegacyLineError(line, inv) ==
    IF ~ProductUsable(line.product_id) THEN "product_not_available"
    ELSE IF ~LegacyCheckProductAvailability(inv, line.product_id, line.quantity)
         THEN "insufficient_inventory"
    ELSE "none"

\* the keys of the dict built from the lines, in insertion order
RECURSIVE DictKeys(_, _)
DictKeys(items, seen) ==
    IF items = <<>> THEN <<>>
    ELSE IF Head(items).product_id \in seen THEN DictKeys(Tail(items), seen)
    ELSE <<Head(items).product_id>>
            \o DictKeys(Tail(items), seen \cup {Head(items).product_id})

\* product_quantities as the list of its entries, in insertion order
DictLines(items) ==
    LET keys == DictKeys(items, {}) IN
    [i \in DOMAIN keys |-> L(keys[i], ItemQuantities(items)[keys[i]])]

\* application/services.py, OrderService.create_order: it returns None where the
\* use case raises, and OrderItem and Order of domain/entities.py validate nothing
LegacyCreateOrder(cid, items) ==
    LET bad == {i \in DOMAIN items : LegacyLineError(items[i], inventory) # "none"}
        first == IF bad = {} THEN 0 ELSE CHOOSE i \in bad : \A j \in bad : i <= j
        r == LegacyReserveLoop(inventory, DictLines(items))
        err == IF cid \notin customers THEN "customer_not_found"
               ELSE IF bad # {} THEN LegacyLineError(items[first], inventory)
               ELSE IF ~r.ok THEN "reserve_failed"
               ELSE "none"
        order == [customer_id |-> cid,
                  items |-> [i \in DOMAIN items |->
                               NewOrderItem(items[i].product_id, items[i].quantity)],
                  status |-> PENDING, created_at |-> now, updated_at |-> now,
                  notes |-> ""]
    IN  /\ err = "none" => Len(orders) < MaxOrders
        /\ CASE err = "none" ->
                  /\ orders' = Append(orders, order)
                  /\ inventory' = r.inventory
                  /\ held' = Append(held, AsTotal(ItemQuantities(items)))
             [] err = "reserve_failed" ->
                  /\ inventory' = r.inventory
                  /\ UNCHANGED <<orders, held>>
             [] OTHER -> UNCHANGED <<orders, inventory, held>>
        /\ last' = [NoLast EXCEPT
                      !.op = "create_order",
                      !.oid = IF err = "none" THEN Len(orders) + 1 ELSE 0,
                      !.result = IF err = "none" THEN "order" ELSE err,
                      !.line = first]
        /\ UNCHANGED <<available, customers, sent, now, payFailures, adds,
                       thr, order_item, price, paid, trail>>

NextLegacyCreate == \E in \in CreateInputs : LegacyCreateOrder(in[1], in[2])

SpecLegacyCreate == Init /\ [][NextLegacyCreate]_vars

\* --------------------------------------------- the Order entity called directly
\* Order.create_new(customer_id): a pending order without items
CreateNew(cid, t) ==
    [customer_id |-> cid, items |-> <<>>, status |-> PENDING,
     created_at |-> t, updated_at |-> t, notes |-> ""]

\* one order built by Order.create_new, products and clock as main() leaves them
InitEntity ==
    /\ orders = <<CreateNew("C1", 0)>>
    /\ inventory = [p \in Products |-> DEFAULT_INVENTORY_LEVEL]
    /\ available = [p \in Products |-> TRUE]
    /\ customers = Customers
    /\ sent = [k \in (1..MaxOrders) \X NotificationKinds |-> 0]
    /\ now = 0
    /\ held = <<ZeroHeld>>
    /\ payFailures = 0
    /\ adds = 0
    /\ last = NoLast
    /\ thr = [t \in Threads |-> Idle]
    /\ order_item = NoItem
    /\ price = Price
    /\ paid = [o \in 1..MaxOrders |-> 0]
    /\ trail = <<PENDING>>

EntityFrame == <<inventory, available, customers, sent, now, held, payFailures, adds,
                 thr, order_item, price, paid, trail>>

\* a method of the order was called: the order after it and whether it raised
EntityCall(op, r) ==
    /\ orders' = [orders EXCEPT ![1] = r.order]
    /\ last' = [NoLast EXCEPT !.op = op, !.oid = 1,
                              !.result = IF r.raised THEN "raised" ELSE "none"]
    /\ UNCHANGED EntityFrame

\* order.add_item(product, quantity)
OrderAddItem(pid, quantity) ==
    EntityCall("add_item", AddItem(orders[1], pid, quantity, now))

\* order.remove_item(product_id)
OrderRemoveItem(pid) ==
    EntityCall("remove_item", RemoveItem(orders[1], pid, now))

\* order.update_item_quantity(product_id, new_quantity)
OrderUpdateItemQuantity(pid, new_quantity) ==
    EntityCall("update_item_quantity",
               UpdateItemQuantity(orders[1], pid, new_quantity, now))

\* order.update_status(new_status)
OrderUpdateStatus(new_status) ==
    EntityCall("update_status", UpdateStatus(orders[1], new_status, now))

NextEntity ==
    \/ \E pid \in Products, q \in EntityQuantities : OrderAddItem(pid, q)
    \/ \E pid \in ProductIds : OrderRemoveItem(pid)
    \/ \E pid \in ProductIds, q \in EntityQuantities : OrderUpdateItemQuantity(pid, q)
    \/ \E s \in OrderStatus : OrderUpdateStatus(s)
    \/ \E pid \in Products, flag \in BOOLEAN : SetProductAvailable(pid, flag)
    \/ Tick

SpecEntity == InitEntity /\ [][NextEntity]_vars

\* domain/entities.py, Order.add_item: the item is appended, nothing is checked
LegacyAddItem(order, pid, quantity, t) ==
    [order EXCEPT !.items = Append(order.items, NewOrderItem(pid, quantity)),
                  !.updated_at = t]

\* order.add_item(product, quantity) on the Order of domain/entities.py
LegacyOrderAddItem(pid, quantity) ==
    /\ Len(orders[1].items) < MaxItems
    /\ EntityCall("add_item",
                  [raised |-> FALSE,
                   order |-> LegacyAddItem(orders[1], pid, quantity, now)])

NextLegacyEntity ==
    \/ \E pid \in Products, q \in EntityQuantities : LegacyOrderAddItem(pid, q)
    \/ Tick

SpecLegacyEntity == InitEntity /\ [][NextLegacyEntity]_vars

\* ------------------------- the notification port reporting success or failure
\* what a NotificationService.send_* call returns: True from the console adapter,
\* False allowed by the port
NotificationOutcomes == BOOLEAN

IsSend(e) ==
    e \in {"send_order_confirmation", "send_status_update",
           "send_delivery_notification", "send_order_cancelled"}

\* the port calls of a handler, each send_* call marked by what it returned
Reported(events, notifyOk) ==
    [i \in DOMAIN events |->
        IF IsSend(events[i]) /\ ~notifyOk THEN <<events[i], "False">>
        ELSE <<events[i], "True">>]

\* mutant: confirm_order returns what send_order_confirmation returned
DoConfirmOrderReturningSend(ords, inv, snt, hld, oid, payOk, notifyOk, t) ==
    LET order == ords[oid]
        u == UpdateStatus(order, CONFIRMED, t)
        raised == \/ oid \notin DOMAIN ords
                  \/ order.status # PENDING
                  \/ order.customer_id \notin customers
                  \/ payOk /\ u.raised
    IN  [result |-> IF raised THEN "raised" ELSE IF payOk /\ notifyOk THEN "true" ELSE "false",
         pay |-> "none",
         orders |-> IF ~raised /\ payOk THEN [ords EXCEPT ![oid] = u.order] ELSE ords,
         inventory |-> inv, sent |-> snt, held |-> hld, events |-> <<>>]

\* OrderService.confirm_order as a function of the stores it reads and writes, of what
\* process_payment reports and of what send_order_confirmation reports
DoConfirmOrder(ords, inv, snt, hld, oid, payOk, notifyOk, t) ==
    LET order == ords[oid]
        u == UpdateStatus(order, CONFIRMED, t)
        pq == ItemQuantities(order.items)
        same(r, pay, ev) == [result |-> r, pay |-> pay, orders |-> ords, inventory |-> inv,
                             sent |-> snt, held |-> hld, events |-> ev]
    IN  IF oid \notin DOMAIN ords THEN same("raised", "none", <<>>)
        ELSE IF order.status # PENDING THEN same("raised", "none", <<>>)
        ELSE IF order.customer_id \notin customers THEN same("raised", "none", <<>>)
        ELSE IF ~payOk
        THEN [result |-> "false", pay |-> "failure", orders |-> ords,
              inventory |-> ReleaseProducts(inv, pq), sent |-> snt,
              held |-> Hold(hld, oid, pq, -1),
              events |-> Reported(<<"process_payment", "release_products">>, notifyOk)]
        ELSE IF u.raised
        THEN same("raised", "success", Reported(<<"process_payment">>, notifyOk))
        ELSE [result |-> "true", pay |-> "success",
              orders |-> [ords EXCEPT ![oid] = u.order],
              inventory |-> inv,
              sent |-> Notify(snt, oid, "confirmation"),
              held |-> hld,
              events |-> Reported(<<"process_payment", "save", "send_order_confirmation">>,
                                  notifyOk)]

\* OrderService.confirm_order with a notification service that reports notifyOk
NotifiedConfirmOrder(oid, payOk, notifyOk) ==
    LET r == DoConfirmOrder(orders, inventory, sent, held, oid, payOk, notifyOk, now) IN
    /\ r.pay = "failure" => payFailures < MaxPayFail
    /\ orders' = r.orders
    /\ inventory' = r.inventory
    /\ sent' = r.sent
    /\ held' = r.held
    /\ payFailures' = IF r.pay = "failure" THEN payFailures + 1 ELSE payFailures
    /\ paid' = IF r.pay = "success" THEN [paid EXCEPT ![oid] = @ + 1] ELSE paid
    /\ last' = [NoLast EXCEPT !.op = "confirm_order", !.oid = oid, !.pay = r.pay,
                   !.result = r.result, !.events = r.events]
    /\ UNCHANGED <<available, customers, now, adds, thr, order_item, price, trail>>

\* OrderService.update_order_status as a function that also takes what the send_* calls
\* report: every return value is discarded
DoUpdateOrderStatusNotified(ords, inv, snt, hld, oid, new_status, notifyOk, t) ==
    LET r == DoUpdateOrderStatus(ords, inv, snt, hld, oid, new_status, t) IN
    [r EXCEPT !.events = Reported(r.events, notifyOk)]

\* OrderService.update_order_status with a notification service that reports notifyOk
NotifiedUpdateOrderStatus(oid, new_status, notifyOk) ==
    LET r == DoUpdateOrderStatusNotified(orders, inventory, sent, held, oid, new_status,
                                         notifyOk, now) IN
    /\ orders' = r.orders
    /\ inventory' = r.inventory
    /\ sent' = r.sent
    /\ held' = r.held
    /\ last' = [NoLast EXCEPT !.op = "update_order_status", !.oid = oid,
                   !.result = r.result, !.events = r.events]
    /\ UNCHANGED <<available, customers, now, payFailures, adds,
                   thr, order_item, price, paid, trail>>

\* the workflow with a notification service whose calls report success or failure
NextNotify ==
    \/ \E in \in OrderRequests : CreateOrder(in[1], in[2])
    \/ \E oid \in OrderIds, payOk \in BOOLEAN, n \in NotificationOutcomes :
            NotifiedConfirmOrder(oid, payOk, n)
    \/ \E oid \in OrderIds, s \in OrderStatus, n \in NotificationOutcomes :
            NotifiedUpdateOrderStatus(oid, s, n)

SpecNotify == Init /\ [][NextNotify]_vars

\* ------------------------------------------------------------------ amounts
\* round(n / d, 2) for an amount of n / d tenths of a cent: the nearest whole number of
\* cents; for an amount halfway between two cents the float that stands for it lies
\* on either side, so both neighbours are outcomes
Round2(n, d) ==
    LET step == d * Cent
        down == (n \div step) * Cent
        rest == n % step
    IN  IF 2 * rest < step THEN {down}
        ELSE IF 2 * rest > step THEN {down + Cent}
        ELSE {down, down + Cent}

\* mutant: the price of an item is the price of one unit
TotalPriceOfOneUnit(item) == item.unit_price

\* OrderItem.total_price: round(quantity * unit_price, 2). The prices of stored products
\* are whole cents, for which the product is a whole number of cents and the rounding
\* has one outcome
TotalPrice(item) ==
    CHOOSE x \in Round2(item.quantity * item.unit_price, 1) : TRUE

RECURSIVE SumTotalPrice(_)
SumTotalPrice(items) ==
    IF items = <<>> THEN 0 ELSE TotalPrice(Head(items)) + SumTotalPrice(Tail(items))

\* Order.total_amount
TotalAmount(order) == SumTotalPrice(order.items)

\* ------------------- create_order of application/services.py called concurrently
\* Each step is one iteration of a loop of the call; the code takes no lock, so the
\* iterations of two calls interleave.
LegacyConcRequests ==
    {<<L("P1", MIN_QUANTITY), L("P2", MAX_QUANTITY)>>,
     <<L("P2", MAX_QUANTITY)>>,
     <<L("P1", MAX_QUANTITY), L("P2", MIN_QUANTITY)>>}

\* a caller enters create_order(customer, items); got is the history of what the
\* reserve_products call of this caller has taken
LegacyConcCall(t, items) ==
    /\ thr[t].pc = "idle"
    /\ thr' = [thr EXCEPT ![t] = [pc |-> "check", items |-> items, i |-> 1,
                                  got |-> ZeroHeld]]
    /\ UNCHANGED <<orders, inventory, held, ConcFrame>>

\* create_order: one iteration of the loop over the requested lines
LegacyConcCheckLine(t) ==
    /\ thr[t].pc = "check"
    /\ thr' = [thr EXCEPT ![t] =
                  IF LegacyLineError(thr[t].items[thr[t].i], inventory) # "none"
                  THEN [@ EXCEPT !.pc = "returned_none"]
                  ELSE IF thr[t].i = Len(thr[t].items)
                  THEN [@ EXCEPT !.pc = "reserve", !.i = 1]
                  ELSE [@ EXCEPT !.i = @ + 1]]
    /\ UNCHANGED <<orders, inventory, held, ConcFrame>>

\* adapters/services.py, reserve_products: one iteration of its loop; when it returns
\* False create_order prints "Failed to reserve inventory" and returns None
LegacyConcReserveLine(t) ==
    LET m == DictLines(thr[t].items)
        product_id == m[thr[t].i].product_id
        quantity == m[thr[t].i].quantity
        current == inventory[product_id]
    IN  /\ thr[t].pc = "reserve"
        /\ IF current >= quantity
           THEN /\ inventory' = [inventory EXCEPT ![product_id] = current - quantity]
                /\ thr' = [thr EXCEPT ![t] =
                              [@ EXCEPT !.got = [@ EXCEPT ![product_id] = @ + quantity],
                                        !.pc = IF thr[t].i = Len(m) THEN "save"
                                               ELSE "reserve",
                                        !.i = @ + 1]]
           ELSE /\ inventory' = inventory
                /\ thr' = [thr EXCEPT ![t].pc = "reserve_failed"]
        /\ UNCHANGED <<orders, held, ConcFrame>>

\* create_order: the order is built and saved, the call returns it
LegacyConcSave(t) ==
    /\ thr[t].pc = "save"
    /\ orders' = Append(orders,
                        [customer_id |-> "C1",
                         items |-> [i \in DOMAIN thr[t].items |->
                                      NewOrderItem(thr[t].items[i].product_id,
                                                   thr[t].items[i].quantity)],
                         status |-> PENDING, created_at |-> now, updated_at |-> now,
                         notes |-> ""])
    /\ held' = Append(held, AsTotal(ItemQuantities(thr[t].items)))
    /\ thr' = [thr EXCEPT ![t].pc = "returned"]
    /\ UNCHANGED <<inventory, ConcFrame>>

NextLegacyConc ==
    \/ \E t \in Threads, items \in LegacyConcRequests : LegacyConcCall(t, items)
    \/ \E t \in Threads : LegacyConcCheckLine(t)
    \/ \E t \in Threads : LegacyConcReserveLine(t)
    \/ \E t \in Threads : LegacyConcSave(t)

SpecLegacyConc == Init /\ [][NextLegacyConc]_vars

\* ------------------- update_order_status of application/services.py (legacy)
\* domain/entities.py, Order.update_status: the status is set, whatever it was
LegacyUpdateStatus(order, new_status, t) ==
    [order EXCEPT !.status = new_status, !.updated_at = t]

\* application/services.py, OrderService.update_order_status: it returns False where
\* the use case raises, and sends no cancellation notification
LegacyUpdateOrderStatus(oid, new_status) ==
    LET found == oid \in DOMAIN orders
        order == orders[oid]
        snt1 == Notify(sent, oid, "status_update")
        base == [NoLast EXCEPT !.op = "update_order_status", !.oid = oid]
    IN  IF ~found \/ order.customer_id \notin customers
        THEN /\ last' = [base EXCEPT !.result = "false"]
             /\ UNCHANGED <<orders, inventory, available, customers, sent, now, held,
                            payFailures, adds, thr, order_item, price, paid, trail>>
        ELSE /\ sent[<<oid, "status_update">>] < MaxUpdates
             /\ orders' = [orders EXCEPT ![oid] = LegacyUpdateStatus(order, new_status, now)]
             /\ sent' = IF new_status = DELIVERED THEN Notify(snt1, oid, "delivery")
                        ELSE snt1
             /\ last' = [base EXCEPT
                           !.result = "true",
                           !.events = <<"save", "send_status_update">>
                                      \o (IF new_status = DELIVERED
                                          THEN <<"send_delivery_notification">>
                                          ELSE <<>>)]
             /\ UNCHANGED <<inventory, available, customers, now, held, payFailures,
                            adds, thr, order_item, price, paid, trail>>

NextLegacyUpdate ==
    \/ \E in \in OrderRequests : LegacyCreateOrder(in[1], in[2])
    \/ \E oid \in OrderIds, s \in OrderStatus : LegacyUpdateOrderStatus(oid, s)
    \/ Tick

SpecLegacyUpdate == Init /\ [][NextLegacyUpdate]_vars

\* ------------------------------- the Order methods on an order of many items
\* an order is built by create_order from a request of 50 or 51 lines, then its
\* methods are called as in SpecEntity
NextItems ==
    \/ \E in \in LongRequests : CreateOrder(in[1], in[2])
    \/ /\ orders # <<>>
       /\ \E pid \in Products, q \in EntityQuantities : OrderAddItem(pid, q)
    \/ /\ orders # <<>>
       /\ \E pid \in ProductIds : OrderRemoveItem(pid)
    \/ /\ orders # <<>>
       /\ \E pid \in ProductIds, q \in EntityQuantities : OrderUpdateItemQuantity(pid, q)

SpecItems == Init /\ [][NextItems]_vars

\* ------------------------------------------ domain/entities/order_item.py
\* what OrderItem(...) is called with: an empty and a stored product id, names that are
\* empty, blank, plain and padded, and prices of nothing, 0.009, 0.01, 0.016, 0.03
\* and 0.05
ItemProductIds == {"", "P1"}
ItemNames == {"", " ", "Pizza", " Pizza "}
ItemPrices == {0, MIN_UNIT_PRICE - 1, MIN_UNIT_PRICE, MIN_UNIT_PRICE + 6,
               3 * MIN_UNIT_PRICE, 5 * MIN_UNIT_PRICE}
\* percentages apply_discount is called with
Discounts == {-1, 0, 1, MAX_DISCOUNT_PERCENTAGE, MAX_DISCOUNT_PERCENTAGE + 1}

\* str.strip on the names above
Strip(name) ==
    CASE name = " " -> ""
      [] name = " Pizza " -> "Pizza"
      [] OTHER -> name

\* OrderItem._normalize_data
NormalizeData(item) ==
    IF item.product_name # "" THEN [item EXCEPT !.product_name = Strip(@)] ELSE item

\* OrderItem(product_id, product_name, quantity, unit_price): __post_init__ validates,
\* then normalizes; when it raises the caller keeps the item it had
OrderItemInit(product_id, product_name, quantity, unit_price) ==
    IF \/ product_id = ""
       \/ product_name = ""
       \/ ~ValidOrderItem(quantity, unit_price)
    THEN [raised |-> TRUE, item |-> order_item]
    ELSE [raised |-> FALSE,
          item |-> NormalizeData([product_id |-> product_id,
                                  product_name |-> product_name,
                                  quantity |-> quantity, unit_price |-> unit_price])]

\* OrderItem.update_quantity
UpdateQuantity(item, new_quantity) ==
    IF ~ValidQuantity(new_quantity)
    THEN [raised |-> TRUE, item |-> item]
    ELSE [raised |-> FALSE, item |-> [item EXCEPT !.quantity = new_quantity]]

ItemFrame == <<orders, inventory, available, customers, sent, now, held, payFailures,
               adds, thr, price, paid, trail>>

\* a constructor or method of OrderItem was called: the item the caller holds after
\* it and whether it raised
ItemCall(op, r) ==
    /\ order_item' = r.item
    /\ last' = [NoLast EXCEPT !.op = op,
                              !.result = IF r.raised THEN "raised" ELSE "none"]
    /\ UNCHANGED ItemFrame

\* OrderItem(product_id, product_name, quantity, unit_price)
NewItem(product_id, product_name, quantity, unit_price) ==
    ItemCall("OrderItem", OrderItemInit(product_id, product_name, quantity, unit_price))

\* OrderItem.create(product_id, product_name, quantity, unit_price)
ItemCreate(product_id, product_name, quantity, unit_price) ==
    ItemCall("create", OrderItemInit(product_id, product_name,
                                     Max({quantity, MIN_QUANTITY}),
                                     Max({unit_price, MIN_UNIT_PRICE})))

\* item.update_quantity(new_quantity)
ItemUpdateQuantity(new_quantity) ==
    /\ order_item # NoItem
    /\ ItemCall("update_quantity", UpdateQuantity(order_item, new_quantity))

\* OrderItem.apply_discount: the outcomes of the call. The amounts are in hundredths
\* of a tenth of a cent: new_price is unit_price * (100 - discount_percentage) of them
ApplyDiscount(item, discount_percentage) ==
    LET new_price == item.unit_price * (100 - discount_percentage)
        floored == IF new_price < MIN_UNIT_PRICE * 100 THEN MIN_UNIT_PRICE * 100
                   ELSE new_price
    IN  IF discount_percentage < 0 \/ discount_percentage > MAX_DISCOUNT_PERCENTAGE
        THEN {[raised |-> TRUE, item |-> item]}
        ELSE {[raised |-> FALSE, item |-> [item EXCEPT !.unit_price = u]] :
                 u \in Round2(floored, 100)}

\* item.apply_discount(discount_percentage)
ItemApplyDiscount(discount_percentage) ==
    /\ order_item # NoItem
    /\ \E r \in ApplyDiscount(order_item, discount_percentage) :
            ItemCall("apply_discount", r)

\* OrderItem.can_apply_discount: the values the call can return. new_price is compared
\* with the minimum price before any rounding; a new_price of exactly the minimum is a
\* float on either side of it, so both answers are outcomes
CanApplyDiscount(item, discount_percentage) ==
    LET new_price == item.unit_price * (100 - discount_percentage)
    IN  IF discount_percentage < 0 \/ discount_percentage > MAX_DISCOUNT_PERCENTAGE
        THEN {FALSE}
        ELSE IF new_price > MIN_UNIT_PRICE * 100 THEN {TRUE}
        ELSE IF new_price < MIN_UNIT_PRICE * 100 THEN {FALSE}
        ELSE {TRUE, FALSE}

\* item.can_apply_discount(discount_percentage): the item is not assigned to
ItemCanApplyDiscount(discount_percentage) ==
    /\ order_item # NoItem
    /\ \E b \in CanApplyDiscount(order_item, discount_percentage) :
         /\ last' = [NoLast EXCEPT !.op = "can_apply_discount",
                                   !.result = IF b THEN "true" ELSE "false"]
         /\ UNCHANGED order_item
         /\ UNCHANGED ItemFrame

NextOrderItem ==
    \/ \E pid \in ItemProductIds, name \in ItemNames, q \in Quantities, p \in ItemPrices :
            NewItem(pid, name, q, p)
    \/ \E pid \in ItemProductIds, name \in ItemNames, q \in Quantities, p \in ItemPrices :
            ItemCreate(pid, name, q, p)
    \/ \E q \in Quantities : ItemUpdateQuantity(q)
    \/ \E pct \in Discounts : ItemApplyDiscount(pct)
    \/ \E pct \in Discounts : ItemCanApplyDiscount(pct)

SpecOrderItem == Init /\ [][NextOrderItem]_vars

\* ------------------------------ application/use_cases/product_service.py
\* prices update_product_price is called with: nothing, and 9.99
NewPrices == {0, 999 * Cent}

\* Product.update_price: raises for a price that is not positive
UpdatePrice(old_price, new_price) ==
    IF new_price <= 0
    THEN [raised |-> TRUE, price |-> old_price]
    ELSE [raised |-> FALSE, price |-> new_price]

\* mutant: the items of the stored orders follow the price of their product
UpdateProductPriceRepricingOrders(pid, new_price) ==
    /\ pid \in Products
    /\ new_price > 0
    /\ price' = [price EXCEPT ![pid] = new_price]
    /\ orders' = [o \in DOMAIN orders |->
                    [orders[o] EXCEPT !.items =
                        [i \in DOMAIN @ |->
                            IF @[i].product_id = pid
                            THEN [@[i] EXCEPT !.unit_price = new_price]
                            ELSE @[i]]]]
    /\ last' = [NoLast EXCEPT !.op = "update_product_price", !.result = "true"]
    /\ UNCHANGED <<inventory, available, customers, sent, now, held, payFailures, adds,
                   thr, order_item, paid, trail>>

\* ProductService.update_product_price: False for a product that is not stored or a
\* price update_price raises for, otherwise the product is saved with the new price
UpdateProductPrice(pid, new_price) ==
    LET r == UpdatePrice(price[pid], new_price)
    IN  /\ IF pid \notin Products
           THEN /\ last' = [NoLast EXCEPT !.op = "update_product_price",
                                          !.result = "false"]
                /\ UNCHANGED price
           ELSE /\ price' = [price EXCEPT ![pid] = r.price]
                /\ last' = [NoLast EXCEPT !.op = "update_product_price",
                                          !.result = IF r.raised THEN "false" ELSE "true"]
        /\ UNCHANGED <<orders, inventory, available, customers, sent, now, held,
                       payFailures, adds, thr, order_item, paid, trail>>

\* orders are created, extended and reduced while the prices and the availability of
\* the products change
NextPrice ==
    \/ \E in \in OrderRequests : CreateOrder(in[1], in[2])
    \/ \E oid \in OrderIds, pid \in ProductIds, q \in AddQuantities :
            AddItemToOrder(oid, pid, q)
    \/ \E oid \in OrderIds, pid \in ProductIds : RemoveItemFromOrder(oid, pid)
    \/ \E pid \in ProductIds, p \in NewPrices : UpdateProductPrice(pid, p)
    \/ \E pid \in Products, flag \in BOOLEAN : SetProductAvailable(pid, flag)

SpecPrice == Init /\ [][NextPrice]_vars

\* ------------------------------------------- timestamps of the Order entity
\* notes add_notes is called with
Notes == {"", "no onions"}

\* mutant: add_notes stamps the creation time
AddNotesStampingCreation(order, notes, t) ==
    [raised |-> FALSE, order |-> [order EXCEPT !.notes = notes, !.created_at = t]]

\* Order.add_notes: in any status
AddNotes(order, notes, t) ==
    [raised |-> FALSE, order |-> [order EXCEPT !.notes = notes, !.updated_at = t]]

OrderAddNotes(notes) ==
    EntityCall("add_notes", AddNotes(orders[1], notes, now))

\* an order built by Order.create_new, or no order yet
InitTime == Init \/ InitEntity

\* the methods of Order that stamp updated_at, on an order built by the factory or by
\* create_order, while time passes
NextTime ==
    \/ \E in \in OrderRequests : CreateOrder(in[1], in[2])
    \/ /\ orders # <<>>
       /\ \E s \in OrderStatus : OrderUpdateStatus(s)
    \/ /\ orders # <<>>
       /\ \E pid \in Products, q \in EntityQuantities : OrderAddItem(pid, q)
    \/ /\ orders # <<>>
       /\ \E pid \in ProductIds : OrderRemoveItem(pid)
    \/ /\ orders # <<>>
       /\ \E pid \in ProductIds, q \in EntityQuantities : OrderUpdateItemQuantity(pid, q)
    \/ /\ orders # <<>>
       /\ \E n \in Notes : OrderAddNotes(n)
    \/ Tick

SpecTime == InitTime /\ [][NextTime]_vars

\* ------------------------------------------ the lifecycle of one order
LifeFrame == <<inventory, available, customers, sent, now, held, payFailures, adds,
               thr, order_item, price, paid>>

\* a method of the order that sets its status was called: the order after it, whether
\* it raised, and the status it has entered
LifeCall(op, r) ==
    /\ orders' = [orders EXCEPT ![1] = r.order]
    /\ trail' = IF r.order.status # orders[1].status
                THEN Append(trail, r.order.status) ELSE trail
    /\ last' = [NoLast EXCEPT !.op = op, !.oid = 1,
                              !.result = IF r.raised THEN "raised" ELSE "none"]
    /\ UNCHANGED LifeFrame

\* order.update_status(new_status)
LifeUpdateStatus(new_status) ==
    LifeCall("update_status", UpdateStatus(orders[1], new_status, now))

\* order.cancel()
LifeCancel ==
    LifeCall("cancel", Cancel(orders[1], now))

\* the order is advanced: a call of update_status or cancel that the order accepts
Advance ==
    /\ \/ \E s \in OrderStatus : LifeUpdateStatus(s)
       \/ LifeCancel
    /\ orders'[1].status # orders[1].status

\* an order built by the factory whose status is set by update_status and cancel, while
\* items are added and time passes
NextLife ==
    \/ \E s \in OrderStatus : LifeUpdateStatus(s)
    \/ LifeCancel
    \/ \E pid \in Products, q \in EntityQuantities : OrderAddItem(pid, q)
    \/ Tick

SpecLife == InitEntity /\ [][NextLife]_vars

\* the caller keeps advancing the order as long as the order accepts a new status
SpecLifeFair == SpecLife /\ WF_vars(Advance)

\* -------------------------------------- Order.update_item_quantity at the bounds
\* quantities update_item_quantity is called with: negative, zero, the two bounds and
\* one more than the upper bound
UpdateQuantities == {-1, 0, MIN_QUANTITY, MAX_QUANTITY, MAX_QUANTITY + 1}
\* the quantity items are added with
AddedQuantities == {MAX_QUANTITY}

\* items are added to an order built by the factory and their quantities updated, in
\* every status of the order
NextQuantity ==
    \/ \E pid \in Products, q \in AddedQuantities : OrderAddItem(pid, q)
    \/ \E pid \in ProductIds, q \in UpdateQuantities : OrderUpdateItemQuantity(pid, q)
    \/ \E s \in OrderStatus : OrderUpdateStatus(s)

SpecQuantity == InitEntity /\ [][NextQuantity]_vars

TypeOK ==
    /\ Len(orders) <= MaxOrders
    /\ Len(held) = Len(orders)
    /\ \A p \in Products :
         inventory[p] = DEFAULT_INVENTORY_LEVEL - SumSeq([o \in DOMAIN held |-> held[o][p]])

\* ================================================================ claims
\* the transition table of the order state machine, as pairs <<from, to>>
AllowedTransitions ==
    {<<PENDING, CONFIRMED>>, <<PENDING, CANCELLED>>,
     <<CONFIRMED, PREPARING>>, <<CONFIRMED, CANCELLED>>,
     <<PREPARING, READY>>, <<PREPARING, CANCELLED>>,
     <<READY, DELIVERED>>}

Stored(oid) == oid \in DOMAIN orders

\* the quantities of the items of an order that are lines of product p
LineQuantities(order, p) ==
    {order.items[i].quantity : i \in {j \in DOMAIN order.items :
                                          order.items[j].product_id = p}}

\* inventory change from inv to inv2 releases the items of the order: every product
\* of the order grows by the quantity of one of its lines, the others are untouched
ReleasesItemsOf(order, inv, inv2) ==
    \A p \in Products :
        IF LineQuantities(order, p) = {}
        THEN inv2[p] = inv[p]
        ELSE inv2[p] - inv[p] \in LineQuantities(order, p)

\* C1: update_status succeeds exactly for the pairs of the transition table; for every
\* other pair (from, to), to = from included, it fails and leaves status and
\* updated_at as they were.
C1_UpdateStatusFollowsTable ==
    [][\A oid \in OrderIds, s \in OrderStatus :
         (Stored(oid) /\ UpdateOrderStatus(oid, s)) =>
            IF <<orders[oid].status, s>> \in AllowedTransitions
            THEN /\ last'.result = "true"
                 /\ orders'[oid].status = s
                 /\ orders'[oid].updated_at = now
            ELSE /\ last'.result = "raised"
                 /\ orders'[oid].status = orders[oid].status
                 /\ orders'[oid].updated_at = orders[oid].updated_at]_vars

\* C1 witness: a status change was refused on a pending order (PENDING -> PENDING,
\* PREPARING, READY or DELIVERED) after time had passed since its last update
C1_Witness ==
    /\ last.op = "update_order_status"
    /\ last.result = "raised"
    /\ Stored(last.oid)
    /\ orders[last.oid].status = PENDING
    /\ orders[last.oid].updated_at < now

\* a line create_order must reject: a missing or unavailable product, or a quantity
\* the inventory cannot supply
BadLine(line) ==
    \/ line.product_id \notin Products
    \/ ~available[line.product_id]
    \/ ~(inventory[line.product_id] >= line.quantity)

\* C2: create_order with a line of a missing or unavailable product, or a line that
\* fails the availability check, fails; no stock is reserved for any line and no
\* order is stored.
C2_CreateAllOrNothing ==
    [][\A in \in CreateInputs :
         (/\ in[1] \in customers
          /\ \E i \in DOMAIN in[2] : BadLine(in[2][i])
          /\ CreateOrder(in[1], in[2])) =>
            /\ last'.result # "order"
            /\ inventory' = inventory
            /\ orders' = orders]_vars

\* C2 witness: a two-line request failed on its second line, whose product was
\* unavailable, after the first line had passed every check
C2_Witness ==
    /\ last.op = "create_order"
    /\ last.result = "product_not_available"
    /\ last.line = 2
    /\ \E p \in Products : ~available[p]

\* C3 (as claimed): confirm_order on a pending order whose payment fails returns
\* failure, leaves the order pending and brings every product back to its level
\* before the order was created: the order holds no stock any more.
C3_PaymentFailureRestoresStock ==
    [][\A oid \in OrderIds :
         (Stored(oid) /\ orders[oid].status = PENDING /\ ConfirmOrder(oid, FALSE)) =>
            /\ last'.result = "false"
            /\ orders'[oid].status = PENDING
            /\ \A p \in Products : held'[oid][p] = 0]_vars

\* C4: confirm_order on a pending order whose payment succeeds returns success,
\* leaves the stored order confirmed and sends the confirmation exactly once.
C4_PaymentSuccessConfirms ==
    [][\A oid \in OrderIds :
         (Stored(oid) /\ orders[oid].status = PENDING /\ ConfirmOrder(oid, TRUE)) =>
            /\ last'.result = "true"
            /\ orders'[oid].status = CONFIRMED
            /\ last'.events = <<"process_payment", "save", "send_order_confirmation">>
            /\ sent'[<<oid, "confirmation">>] = sent[<<oid, "confirmation">>] + 1
            /\ \A k \in NotificationKinds \ {"confirmation"} :
                    sent'[<<oid, k>>] = sent[<<oid, k>>]]_vars

\* C4 witness: a confirmation whose payment succeeded
C4_Witness ==
    /\ last.op = "confirm_order"
    /\ last.pay = "success"
    /\ last.result = "true"
    /\ orders[last.oid].status = CONFIRMED
    /\ sent[<<last.oid, "confirmation">>] = 1

\* C5 (as claimed): cancel_order on a pending or confirmed order returns success,
\* leaves the order cancelled, sends the cancellation notification and releases the
\* items of the order.
C5_CancelSucceeds ==
    [][\A oid \in OrderIds :
         (Stored(oid) /\ orders[oid].status \in {PENDING, CONFIRMED}
            /\ CancelOrder(oid)) =>
            /\ last'.result = "true"
            /\ orders'[oid].status = CANCELLED
            /\ sent'[<<oid, "cancelled">>] = sent[<<oid, "cancelled">>] + 1
            /\ ReleasesItemsOf(orders[oid], inventory, inventory')]_vars

\* C6: cancel_order on an order that is neither pending nor confirmed returns
\* failure and changes neither the orders, the inventory nor the notifications, so
\* repeating it gives the same result.
C6_CancelRejected ==
    [][\A oid \in OrderIds :
         (Stored(oid) /\ orders[oid].status \notin {PENDING, CONFIRMED}
            /\ CancelOrder(oid)) =>
            /\ last'.result = "false"
            /\ orders' = orders
            /\ inventory' = inventory
            /\ sent' = sent]_vars

\* C6 witness: cancel_order was refused on a delivered order
C6_Witness ==
    /\ last.op = "cancel_order"
    /\ last.result = "false"
    /\ Stored(last.oid)
    /\ orders[last.oid].status = DELIVERED

C8_InvalidTransitionChangesNothing ==
    [][\A oid \in OrderIds, s \in OrderStatus :
         (Stored(oid) /\ <<orders[oid].status, s>> \notin AllowedTransitions
            /\ UpdateOrderStatus(oid, s)) =>
            /\ last'.result = "raised"
            /\ orders' = orders
            /\ inventory' = inventory
            /\ sent' = sent]_vars

\* C8 witness: a status change was refused on a READY order (every target but
\* DELIVERED, READY -> CANCELLED among them)
C8_Witness ==
    /\ last.op = "update_order_status"
    /\ last.result = "raised"
    /\ Stored(last.oid)
    /\ orders[last.oid].status = READY

\* C9: an order that is DELIVERED or CANCELLED never changes status again, whatever
\* workflow operation is called.
C9_TerminalStatusIsFinal ==
    [][\A oid \in DOMAIN orders :
         orders[oid].status \in {DELIVERED, CANCELLED} =>
            orders'[oid].status = orders[oid].status]_vars

\* C9 witness: an operation was called on an order that was already cancelled
C9_Witness ==
    /\ last.op \in {"confirm_order", "update_order_status", "add_item_to_order",
                    "remove_item_from_order"}
    /\ Stored(last.oid)
    /\ orders[last.oid].status = CANCELLED
    /\ last.result \in {"raised", "false"}

\* the quantity of product p that concurrent create_order calls reserved successfully
RECURSIVE ReservedBy(_, _)
ReservedBy(T, p) ==
    IF T = {} THEN 0
    ELSE LET t == CHOOSE x \in T : TRUE
         IN  (IF thr[t].pc \in {"save", "returned"} /\ thr[t].pid = p
              THEN thr[t].qty ELSE 0) + ReservedBy(T \ {t}, p)

\* C10 (as claimed): under any interleaving of concurrent create_order calls for the
\* same product the available quantity never becomes negative and the quantity
\* reserved successfully never exceeds the stock that was available.
C10_InventoryNotCorrupted ==
    \A p \in Products :
        /\ inventory[p] >= 0
        /\ ReservedBy(Threads, p) <= DEFAULT_INVENTORY_LEVEL

\* the inventory after a call is the inventory before it with every product of the
\* dict m lowered by its quantity
LoweredBy(inv, inv2, m) ==
    \A p \in Products : inv2[p] = inv[p] - AsTotal(ItemQuantities(m))[p]

\* C11 (as claimed, for the adapter of adapters/services.py): reserve_products is
\* all-or-nothing: when it returns false every level is what it was before the call,
\* when it returns true every product of the dict is lowered by its quantity.
C11_ReserveAllOrNothing ==
    [][\A m \in InvMaps :
         LegacyInvReserveProducts(m) =>
            /\ last'.result = "false" => inventory' = inventory
            /\ last'.result = "true" => LoweredBy(inventory, inventory', m)]_vars

\* C11 for the adapter of infrastructure/adapters: the same statement holds there.
C11_ReserveAllOrNothingInfrastructure ==
    [][\A m \in InvMaps :
         InvReserveProducts(m) =>
            /\ last'.result = "false" => inventory' = inventory
            /\ last'.result = "true" => LoweredBy(inventory, inventory', m)]_vars

\* C20: releasing the dict that the preceding successful reserve_products call
\* reserved brings every product back to its level before the reservation.
C20_ReserveReleaseRoundTrip ==
    [][\A m \in InvMaps :
         (last.op = "reserve_products" /\ last.result = "true" /\ last.pq = m
            /\ InvReleaseProducts(m)) => inventory' = last.before]_vars

\* a two-product dict has been reserved and released again, from levels that were
\* not the default ones
C20_Witness ==
    /\ last.op = "release_products"
    /\ last.undo
    /\ Len(last.pq) = 2
    /\ inventory = last.undone
    /\ inventory # last.before
    /\ \E p \in Products : inventory[p] # DEFAULT_INVENTORY_LEVEL

\* a request that passes every check of create_order up to and including the
\* reservation
Reservable(cid, items) ==
    LET v == ValidateLines(items, inventory, <<>>, EmptyDict) IN
    /\ cid \in customers
    /\ items # <<>>
    /\ v.err = "none"
    /\ CanReserve(inventory, v.pq)

Malformed(cid, items) ==
    \/ cid \notin customers
    \/ items = <<>>
    \/ \E i \in DOMAIN items : items[i].quantity <= 0

\* C13 (as claimed, for create_order of application/services.py): a request of a
\* missing customer, without lines or with a quantity <= 0 fails before any side
\* effect: nothing is reserved and no order is stored.
C13_MalformedRequestRefused ==
    [][\A in \in CreateInputs :
         (Malformed(in[1], in[2]) /\ LegacyCreateOrder(in[1], in[2])) =>
            /\ last'.result # "order"
            /\ inventory' = inventory
            /\ orders' = orders]_vars

\* C13 for create_order of application/use_cases/order_service.py: the same
\* statement holds there.
C13_MalformedRequestRefusedUseCase ==
    [][\A in \in CreateInputs :
         (Malformed(in[1], in[2]) /\ CreateOrder(in[1], in[2])) =>
            /\ last'.result # "order"
            /\ inventory' = inventory
            /\ orders' = orders]_vars

\* the quantity of product p that the requested lines order in total
Ordered(items, p) ==
    SumSeq([i \in DOMAIN items |->
              IF items[i].product_id = p THEN items[i].quantity ELSE 0])

\* C14 (as claimed): a successful create_order returns a pending order that is
\* stored under its id, has one item per requested line with the requested
\* quantity, and has lowered every requested product by the quantity ordered.
C14_CreatedOrderMatchesRequest ==
    [][\A in \in CreateInputs :
         (CreateOrder(in[1], in[2]) /\ last'.result = "order") =>
            /\ last'.oid \in DOMAIN orders'
            /\ last'.oid \notin DOMAIN orders
            /\ orders'[last'.oid].status = PENDING
            /\ Len(orders'[last'.oid].items) = Len(in[2])
            /\ \A i \in DOMAIN in[2] :
                  /\ orders'[last'.oid].items[i].product_id = in[2][i].product_id
                  /\ orders'[last'.oid].items[i].quantity = in[2][i].quantity
            /\ \A p \in Products :
                  inventory'[p] = inventory[p] - Ordered(in[2], p)]_vars

\* C15: confirm_order on a stored order that is not pending fails with an error,
\* does not call process_payment and changes neither the orders, the inventory nor
\* the notifications.
C15_ConfirmNeedsPending ==
    [][\A oid \in OrderIds, payOk \in BOOLEAN :
         (Stored(oid) /\ orders[oid].status # PENDING /\ ConfirmOrder(oid, payOk)) =>
            /\ last'.result = "raised"
            /\ last'.pay = "none"
            /\ last'.events = <<>>
            /\ orders' = orders
            /\ inventory' = inventory
            /\ sent' = sent]_vars

\* confirm_order has been refused on an order that was confirmed before
C15_Witness ==
    /\ last.op = "confirm_order"
    /\ last.result = "raised"
    /\ Stored(last.oid)
    /\ orders[last.oid].status = CONFIRMED
    /\ sent[<<last.oid, "confirmation">>] = 1

\* C16: add_item, remove_item and update_item_quantity raise on an order that is
\* not pending and leave it as it was, and no step changes the items of an order
\* that is not pending.
C16_ItemsFrozenUnlessPending ==
    [][orders[1].status # PENDING =>
          /\ \A pid \in Products, q \in EntityQuantities :
                OrderAddItem(pid, q) => last'.result = "raised" /\ orders' = orders
          /\ \A pid \in ProductIds :
                OrderRemoveItem(pid) => last'.result = "raised" /\ orders' = orders
          /\ \A pid \in ProductIds, q \in EntityQuantities :
                OrderUpdateItemQuantity(pid, q) =>
                    last'.result = "raised" /\ orders' = orders
          /\ orders'[1].items = orders[1].items]_vars

\* add_item has raised on a confirmed order that has an item
C16_Witness ==
    /\ last.op = "add_item"
    /\ last.result = "raised"
    /\ orders[1].status = CONFIRMED
    /\ Len(orders[1].items) = 1
    /\ \A p \in Products : available[p]

\* C19 (as claimed): after any sequence of add_item calls on an order created
\* without items, no two items of the order have the same product id.
C19_NoDuplicateProducts ==
    \A i, j \in DOMAIN orders[1].items :
        orders[1].items[i].product_id = orders[1].items[j].product_id => i = j

\* C19 for Order.add_item of domain/entities/order.py: adding a product that is in
\* the order raises the quantity of its item, within 1..99, and appends nothing.
C19_AddItemMerges ==
    [][\A pid \in Products, q \in EntityQuantities :
         (FindItemByProductId(orders[1].items, pid) # 0 /\ OrderAddItem(pid, q)) =>
            LET i == FindItemByProductId(orders[1].items, pid) IN
            /\ Len(orders'[1].items) = Len(orders[1].items)
            /\ IF last'.result = "raised"
               THEN orders' = orders
               ELSE /\ orders'[1].items[i].quantity = orders[1].items[i].quantity + q
                    /\ orders'[1].items[i].quantity \in MIN_QUANTITY..MAX_QUANTITY]_vars

\* C17: add_item_to_order and remove_item_from_order never raise, every call ends
\* with a true or false return value, and when the order (or, for add_item_to_order,
\* the product) is not found the orders and the inventory are unchanged.
C17_AddRemoveNeverRaise ==
    [][/\ \A oid \in OrderIds, pid \in ProductIds, q \in AddQuantities :
            AddItemToOrder(oid, pid, q) =>
               /\ last'.result \in {"true", "false"}
               /\ (~Stored(oid) \/ pid \notin Products) =>
                     /\ last'.result = "false"
                     /\ orders' = orders
                     /\ inventory' = inventory
       /\ \A oid \in OrderIds, pid \in ProductIds :
            RemoveItemFromOrder(oid, pid) =>
               /\ last'.result \in {"true", "false"}
               /\ ~Stored(oid) =>
                     /\ last'.result = "false"
                     /\ orders' = orders
                     /\ inventory' = inventory]_vars

\* add_item_to_order has returned false for an order id that is not stored
C17_Witness ==
    /\ last.op = "add_item_to_order"
    /\ last.result = "false"
    /\ ~Stored(last.oid)
    /\ \A p \in Products : inventory[p] = DEFAULT_INVENTORY_LEVEL

\* C18 (as claimed): whenever add_item_to_order returns failure, every product is
\* at the level it had before the call.
C18_FailedAddRestoresStock ==
    [][\A oid \in OrderIds, pid \in ProductIds, q \in AddQuantities :
         (AddItemToOrder(oid, pid, q) /\ last'.result = "false") =>
            inventory' = inventory]_vars

\* C21: what the notification calls report does not reach the workflow: a confirm_order
\* or update_order_status step, run again from the same state with the other
\* notification outcome, returns the same result and leaves the same stored orders
\* (status included) and the same inventory
C21_NotificationOutcomeIgnored ==
    [][/\ \A oid \in OrderIds, payOk \in BOOLEAN, n \in NotificationOutcomes :
            NotifiedConfirmOrder(oid, payOk, n) =>
               LET other == DoConfirmOrder(orders, inventory, sent, held, oid, payOk,
                                           ~n, now)
               IN  /\ last'.result = other.result
                   /\ orders' = other.orders
                   /\ inventory' = other.inventory
       /\ \A oid \in OrderIds, s \in OrderStatus, n \in NotificationOutcomes :
            NotifiedUpdateOrderStatus(oid, s, n) =>
               LET other == DoUpdateOrderStatusNotified(orders, inventory, sent, held,
                                                        oid, s, ~n, now)
               IN  /\ last'.result = other.result
                   /\ orders' = other.orders
                   /\ inventory' = other.inventory]_vars

\* an order confirmed while its confirmation was reported as not sent, then delivered
\* while both notifications of the delivery were reported as not sent
C21_Witness ==
    /\ last.op = "update_order_status"
    /\ last.result = "true"
    /\ last.events = <<<<"save", "True">>, <<"send_status_update", "False">>,
                       <<"send_delivery_notification", "False">>>>
    /\ orders[last.oid].status = DELIVERED
    /\ sent[<<last.oid, "confirmation">>] = 1

\* C22: the total amount of every order is the sum of the total prices of its items,
\* and the total price of an item is its quantity times its unit price, in cents,
\* whatever items were added, removed or had their quantity updated; two units at
\* 12.99 and one at 10.50 make 36.48
C22_TotalAmountIsSumOfItems ==
    /\ \A oid \in DOMAIN orders :
         LET items == orders[oid].items IN
         /\ \A i \in DOMAIN items :
               TotalPrice(items[i]) = items[i].quantity * items[i].unit_price
         /\ TotalAmount(orders[oid]) =
               SumSeq([i \in DOMAIN items |-> items[i].quantity * items[i].unit_price])
    /\ TotalAmount([items |-> <<NewOrderItem("P1", 2), NewOrderItem("P2", 1)>>]) = 3648 * Cent

\* an order of two products whose second item just had its quantity updated
C22_Witness ==
    /\ last.op = "update_item_quantity"
    /\ last.result = "none"
    /\ Len(orders[1].items) = 2
    /\ orders[1].items[1].quantity = MAX_QUANTITY - MAX_QUANTITY \div 2
    /\ orders[1].items[2].quantity = MAX_QUANTITY \div 2
    /\ TotalAmount(orders[1]) =
          orders[1].items[1].quantity * Price[orders[1].items[1].product_id]
          + orders[1].items[2].quantity * Price[orders[1].items[2].product_id]

\* the status updates of the demonstration run, as pairs <<from, to>>
DemoUpdates == {<<CONFIRMED, PREPARING>>, <<PREPARING, READY>>, <<READY, DELIVERED>>}

\* C23: every step of the sequence create_order, confirm_order with a successful
\* payment, update_order_status to PREPARING, to READY and to DELIVERED is accepted
\* from the state the step before leaves, and no step after the creation changes the
\* items of the order: the sequence ends with the stored order delivered, holding the
\* items it was created with.
C23_DemoSequenceAccepted ==
    [][/\ \A in \in OrderRequests :
            (Reservable(in[1], in[2]) /\ CreateOrder(in[1], in[2])) =>
               /\ last'.result = "order"
               /\ last'.oid \in DOMAIN orders'
               /\ orders'[last'.oid].status = PENDING
       /\ \A oid \in OrderIds :
            (Stored(oid) /\ orders[oid].status = PENDING /\ ConfirmOrder(oid, TRUE)) =>
               /\ last'.result = "true"
               /\ orders'[oid].status = CONFIRMED
               /\ orders'[oid].items = orders[oid].items
       /\ \A oid \in OrderIds, step \in DemoUpdates :
            (Stored(oid) /\ orders[oid].status = step[1]
               /\ UpdateOrderStatus(oid, step[2])) =>
               /\ last'.result = "true"
               /\ orders'[oid].status = step[2]
               /\ orders'[oid].items = orders[oid].items]_vars

\* the end of the sequence: an order created from the first request, confirmed by
\* confirm_order and taken to DELIVERED by three status updates, its items untouched
C23_Witness ==
    /\ last.op = "update_order_status"
    /\ last.result = "true"
    /\ orders[last.oid].status = DELIVERED
    /\ orders[last.oid].items = <<NewOrderItem("P1", MAX_QUANTITY),
                                  NewOrderItem("P2", MIN_QUANTITY)>>
    /\ sent[<<last.oid, "confirmation">>] = 1
    /\ sent[<<last.oid, "status_update">>] = 3
    /\ sent[<<last.oid, "delivery">>] = 1
    /\ adds = 0

\* C24: a confirm_order that fails on the payment leaves the order pending, and a
\* later confirm_order on that order whose payment succeeds is accepted and leaves
\* it confirmed.
C24_ReconfirmAfterPaymentFailure ==
    [][\A oid \in OrderIds :
         /\ (Stored(oid) /\ orders[oid].status = PENDING /\ ConfirmOrder(oid, FALSE)) =>
               /\ last'.result = "false"
               /\ last'.pay = "failure"
               /\ orders'[oid].status = PENDING
         /\ (Stored(oid) /\ orders[oid].status = PENDING /\ payFailures > 0
               /\ ConfirmOrder(oid, TRUE)) =>
               /\ last'.result = "true"
               /\ orders'[oid].status = CONFIRMED]_vars

\* an order confirmed by a payment that succeeded after its payment had failed twice
C24_Witness ==
    /\ last.op = "confirm_order"
    /\ last.pay = "success"
    /\ last.result = "true"
    /\ payFailures = MaxPayFail
    /\ orders[last.oid].status = CONFIRMED

\* C25 (as claimed, for create_order of application/services.py on the adapter of
\* adapters/services.py): when the reservation call of create_order returns false,
\* create_order fails without storing an order and nothing is reserved for the call:
\* the inventory is what the concurrent calls made it.
C25_FailedReservationReservesNothing ==
    [][\A t \in Threads :
         (LegacyConcReserveLine(t) /\ thr'[t].pc = "reserve_failed") =>
            /\ orders' = orders
            /\ inventory' = inventory
            /\ \A p \in Products : thr'[t].got[p] = 0]_vars

\* C25 for create_order of application/use_cases on the adapter of
\* infrastructure/adapters: the step at which reserve_products returns false changes
\* neither the inventory nor the stored orders, it comes before any write of the call
\* to the inventory, and the call takes no further step.
C25_FailedReservationReservesNothingUseCase ==
    [][\A t \in Threads :
         /\ (ConcReserveCheck(t) /\ thr'[t].pc = "reserve_failed") =>
               /\ orders' = orders
               /\ inventory' = inventory
               /\ held' = held
         /\ thr[t].pc = "reserve_failed" => thr'[t] = thr[t]]_vars

\* a call of the use case whose reservation failed after its availability check had
\* passed: the other call holds the stock
C25_UseCaseWitness ==
    \E t \in Threads, u \in Threads :
        /\ thr[t].pc = "reserve_failed"
        /\ thr[u].pc = "returned"
        /\ thr[u].pid = thr[t].pid
        /\ inventory[thr[t].pid] < thr[t].qty
        /\ Len(orders) = 1

\* a step is an accepted status update of order oid to status s that saved the new
\* status before it sent anything, sent one status-update notification, a delivery
\* notification exactly for DELIVERED and a cancellation notification exactly for
\* CANCELLED
StatusUpdateNotified(oid, s) ==
    /\ orders'[oid].status = s
    /\ last'.events # <<>>
    /\ last'.events[1] = "save"
    /\ sent'[<<oid, "status_update">>] = sent[<<oid, "status_update">>] + 1
    /\ sent'[<<oid, "delivery">>] =
          sent[<<oid, "delivery">>] + (IF s = DELIVERED THEN 1 ELSE 0)
    /\ sent'[<<oid, "cancelled">>] =
          sent[<<oid, "cancelled">>] + (IF s = CANCELLED THEN 1 ELSE 0)
    /\ sent'[<<oid, "confirmation">>] = sent[<<oid, "confirmation">>]

\* C26 (as claimed, for update_order_status of application/services.py): a successful
\* update_order_status saves the new status before any notification, sends exactly one
\* status-update notification, a delivery notification if and only if the new status
\* is DELIVERED and a cancellation notification if and only if it is CANCELLED.
C26_StatusUpdateNotifications ==
    [][\A oid \in OrderIds, s \in OrderStatus :
         (LegacyUpdateOrderStatus(oid, s) /\ last'.result = "true") =>
            StatusUpdateNotified(oid, s)]_vars

\* C26 for update_order_status of application/use_cases: the same statement holds
\* there.
C26_StatusUpdateNotificationsUseCase ==
    [][\A oid \in OrderIds, s \in OrderStatus :
         (UpdateOrderStatus(oid, s) /\ last'.result = "true") =>
            StatusUpdateNotified(oid, s)]_vars

\* the use case has cancelled an order that had been confirmed and started
C26_UseCaseWitness ==
    /\ last.op = "update_order_status"
    /\ last.result = "true"
    /\ orders[last.oid].status = CANCELLED
    /\ sent[<<last.oid, "cancelled">>] = 1
    /\ sent[<<last.oid, "status_update">>] = 3

\* the quantity an order holds of product p, over all its items
QuantityOf(order, p) ==
    SumSeq([i \in DOMAIN order.items |->
               IF order.items[i].product_id = p THEN order.items[i].quantity ELSE 0])

\* C27 (as claimed): a successful add_item_to_order reserves before it changes the
\* order and lowers the level of the product by exactly the quantity the order gained;
\* a successful remove_item_from_order changes the order first and then releases
\* exactly the quantity the order lost for that product.
C27_AddReservesRemoveReleases ==
    [][/\ \A oid \in OrderIds, pid \in ProductIds, q \in AddQuantities :
            (AddItemToOrder(oid, pid, q) /\ last'.result = "true") =>
               /\ last'.events = <<"reserve_products", "save">>
               /\ inventory[pid] - inventory'[pid] =
                     QuantityOf(orders'[oid], pid) - QuantityOf(orders[oid], pid)
               /\ \A p \in Products \ {pid} : inventory'[p] = inventory[p]
       /\ \A oid \in OrderIds, pid \in ProductIds :
            (RemoveItemFromOrder(oid, pid) /\ last'.result = "true") =>
               /\ last'.events = <<"save", "release_products">>
               /\ inventory'[pid] - inventory[pid] =
                     QuantityOf(orders[oid], pid) - QuantityOf(orders'[oid], pid)
               /\ \A p \in Products \ {pid} : inventory'[p] = inventory[p]]_vars

\* C28 (as claimed): every order holds at most 50 items (and at least none), whatever
\* it was constructed with and whatever add_item, remove_item and
\* update_item_quantity calls followed.
C28_AtMostFiftyItems ==
    \A oid \in DOMAIN orders : Len(orders[oid].items) <= MAX_ITEMS_PER_ORDER

\* C28, the part that holds: an Order is never constructed with more than 50 items
C28_ConstructionRejectsTooManyItems ==
    [][\A in \in LongRequests :
         (CreateOrder(in[1], in[2]) /\ Len(in[2]) > MAX_ITEMS_PER_ORDER) =>
            /\ last'.result # "order"
            /\ orders' = orders]_vars

\* the quantity of an item is within the bounds of OrderItem
QuantityInBounds(item) == item.quantity >= MIN_QUANTITY /\ item.quantity <= MAX_QUANTITY

\* C29 (as claimed): every OrderItem has a quantity of 1 to 99, a product id and a
\* product name that is not empty; OrderItem(...) with an empty id or name or a
\* quantity outside 1..99 raises; update_quantity(n) with n outside 1..99 raises and
\* leaves the quantity as it was.
C29_OrderItemInBounds ==
    [][/\ order_item' # NoItem =>
            /\ QuantityInBounds(order_item')
            /\ order_item'.product_id # ""
            /\ order_item'.product_name # ""
       /\ \A pid \in ItemProductIds, name \in ItemNames, q \in Quantities, p \in ItemPrices :
            (NewItem(pid, name, q, p)
               /\ (pid = "" \/ name = "" \/ q < MIN_QUANTITY \/ q > MAX_QUANTITY)) =>
               /\ last'.result = "raised"
               /\ order_item' = order_item
       /\ \A n \in Quantities :
            (ItemUpdateQuantity(n) /\ (n < MIN_QUANTITY \/ n > MAX_QUANTITY)) =>
               /\ last'.result = "raised"
               /\ order_item'.quantity = order_item.quantity]_vars

\* C29, the part about quantities and product ids: it holds for the constructor, the
\* factory and update_quantity.
C29_QuantityInBounds ==
    [][/\ order_item' # NoItem =>
            /\ QuantityInBounds(order_item')
            /\ order_item'.product_id # ""
       /\ \A pid \in ItemProductIds, name \in ItemNames, q \in Quantities, p \in ItemPrices :
            (NewItem(pid, name, q, p)
               /\ (pid = "" \/ name = "" \/ q < MIN_QUANTITY \/ q > MAX_QUANTITY)) =>
               /\ last'.result = "raised"
               /\ order_item' = order_item
       /\ \A n \in Quantities :
            (ItemUpdateQuantity(n) /\ (n < MIN_QUANTITY \/ n > MAX_QUANTITY)) =>
               /\ last'.result = "raised"
               /\ order_item'.quantity = order_item.quantity]_vars

\* C29 for the items of an order: add_item, merging included, and update_item_quantity
\* leave every quantity within 1..99, and leave the items as they were when they raise.
C29_ItemsOfOrderInBounds ==
    [][/\ \A i \in DOMAIN orders'[1].items : QuantityInBounds(orders'[1].items[i])
       /\ last'.result = "raised" => orders'[1].items = orders[1].items]_vars

\* C30 (as claimed): apply_discount with a percentage outside 0..50 raises and leaves
\* the unit price as it was; with a percentage inside 0..50 it does not raise the unit
\* price and does not leave it below 0.01; the unit price of an item is at least 0.01
\* after any sequence of discounts.
C30_DiscountNeverIncreases ==
    [][/\ \A pct \in Discounts :
            ItemApplyDiscount(pct) =>
               IF pct < 0 \/ pct > MAX_DISCOUNT_PERCENTAGE
               THEN /\ last'.result = "raised"
                    /\ order_item' = order_item
               ELSE /\ last'.result = "none"
                    /\ order_item'.unit_price <= order_item.unit_price
                    /\ order_item'.unit_price >= MIN_UNIT_PRICE
       /\ order_item' # NoItem => order_item'.unit_price >= MIN_UNIT_PRICE]_vars

\* C30 for unit prices that are whole cents, and the floor for all: the statement
\* holds when the unit price before the call has two decimals, and the unit price is
\* never below 0.01 whatever it was.
C30_DiscountOnWholeCents ==
    [][/\ \A pct \in Discounts :
            ItemApplyDiscount(pct) =>
               IF pct < 0 \/ pct > MAX_DISCOUNT_PERCENTAGE
               THEN /\ last'.result = "raised"
                    /\ order_item' = order_item
               ELSE /\ last'.result = "none"
                    /\ order_item.unit_price % Cent = 0 =>
                          order_item'.unit_price <= order_item.unit_price
                    /\ order_item'.unit_price <= order_item.unit_price + Cent \div 2
                    /\ order_item'.unit_price >= MIN_UNIT_PRICE
       /\ order_item' # NoItem => order_item'.unit_price >= MIN_UNIT_PRICE]_vars

\* a discount has lowered a price of whole cents
C30_WholeCentsWitness ==
    /\ last.op = "apply_discount"
    /\ last.result = "none"
    /\ order_item.unit_price = 2 * Cent
    /\ order_item.product_name = "Pizza"

\* C31: can_apply_discount(pct) leaves the item as it is and returns True exactly for
\* the percentages for which apply_discount(pct) on the same item would succeed
C31_CanApplyDiscountAgreesWithApplyDiscount ==
    [][\A pct \in Discounts :
         (order_item # NoItem /\ ItemCanApplyDiscount(pct)) =>
            /\ order_item' = order_item
            /\ (last'.result = "true") <=>
                  (\E r \in ApplyDiscount(order_item, pct) : ~r.raised)]_vars

\* C31, the part the class satisfies: can_apply_discount never assigns to the item, it
\* returns False for every percentage apply_discount raises for, and when it returns
\* True apply_discount succeeds with a price that is not below the minimum
C31_CanApplyDiscountIsPureAndSound ==
    [][\A pct \in Discounts :
         (order_item # NoItem /\ ItemCanApplyDiscount(pct)) =>
            /\ order_item' = order_item
            /\ (last'.result = "true") =>
                  \A r \in ApplyDiscount(order_item, pct) :
                      ~r.raised /\ r.item.unit_price >= MIN_UNIT_PRICE
            /\ (\A r \in ApplyDiscount(order_item, pct) : r.raised) =>
                  last'.result = "false"]_vars

\* can_apply_discount has answered True on an item priced 0.05, no discount of which
\* falls below the minimum price
C31_SoundWitness ==
    /\ last.op = "can_apply_discount"
    /\ last.result = "true"
    /\ order_item.unit_price = 5 * MIN_UNIT_PRICE

\* the unit prices of the items of product p in an order
UnitPricesOf(order, p) ==
    {order.items[i].unit_price : i \in {j \in DOMAIN order.items :
                                          order.items[j].product_id = p}}

\* C32: item prices are snapshots: update_product_price and a change of availability
\* leave the items and the total amount of every stored order as they were, and no
\* later step changes the unit price of an item an order already has
C32_PricesAreSnapshots ==
    [][/\ \A oid \in DOMAIN orders :
            ((\E pid \in ProductIds, p \in NewPrices : UpdateProductPrice(pid, p))
               \/ (\E pid \in Products, flag \in BOOLEAN : SetProductAvailable(pid, flag)))
            => /\ oid \in DOMAIN orders'
               /\ orders'[oid].items = orders[oid].items
               /\ TotalAmount(orders'[oid]) = TotalAmount(orders[oid])
       /\ \A oid \in DOMAIN orders, p \in Products :
            (oid \in DOMAIN orders'
               /\ UnitPricesOf(orders[oid], p) # {}
               /\ UnitPricesOf(orders'[oid], p) # {})
            => UnitPricesOf(orders'[oid], p) = UnitPricesOf(orders[oid], p)]_vars

\* the price of a product was changed while an order holds an item of it at the old price
C32_Witness ==
    /\ last.op = "update_product_price"
    /\ last.result = "true"
    /\ \E oid \in DOMAIN orders :
       \E i \in DOMAIN orders[oid].items :
         /\ orders[oid].items[i].product_id \in Products
         /\ orders[oid].items[i].unit_price # price[orders[oid].items[i].product_id]
         /\ orders[oid].items[i].unit_price = Price[orders[oid].items[i].product_id]

\* C33: with a clock that does not go back, every order has updated_at >= created_at in
\* every reachable state, and no step changes created_at or decreases updated_at
C33_UpdatedAtNotBeforeCreatedAt ==
    /\ [](\A oid \in DOMAIN orders : orders[oid].updated_at >= orders[oid].created_at)
    /\ [][/\ now' >= now
          /\ \A oid \in DOMAIN orders :
               /\ oid \in DOMAIN orders'
               /\ orders'[oid].created_at = orders[oid].created_at
               /\ orders'[oid].updated_at >= orders[oid].updated_at]_vars

\* add_notes has stamped an order later than it was created
C33_Witness ==
    /\ last.op = "add_notes"
    /\ orders # <<>>
    /\ orders[1].notes = "no onions"
    /\ orders[1].updated_at > orders[1].created_at

\* an order built by create_order was moved to another status later than it was created
C33_WorkflowWitness ==
    /\ last.op = "update_status"
    /\ orders # <<>>
    /\ orders[1].items # <<>>
    /\ orders[1].status = CONFIRMED
    /\ orders[1].updated_at > orders[1].created_at

\* the quantity of product p in the stored orders that are not cancelled
RECURSIVE QuantityInOrders(_, _)
QuantityInOrders(n, p) ==
    IF n = 0 THEN 0
    ELSE QuantityInOrders(n - 1, p)
         + (IF orders[n].status = CANCELLED THEN 0 ELSE QuantityOf(orders[n], p))

\* C34: stock conservation: for every product the available quantity plus the
\* quantity of it in the stored orders that are not cancelled is the initial stock, so
\* the available quantity never exceeds the initial stock
C34_StockConservation ==
    \A p \in Products :
        /\ inventory[p] + QuantityInOrders(Len(orders), p) = DEFAULT_INVENTORY_LEVEL
        /\ inventory[p] <= DEFAULT_INVENTORY_LEVEL

\* C34, its last part alone: the available quantity of a product never exceeds the
\* initial stock (no reservation is released twice)
C34_AvailableWithinInitialStock ==
    \A p \in Products : inventory[p] <= DEFAULT_INVENTORY_LEVEL

\* the statuses of an order that has been confirmed and not cancelled
ConfirmedStatuses == {CONFIRMED, PREPARING, READY, DELIVERED}

\* C35: an order becomes CONFIRMED only in a confirm_order call in which the payment
\* succeeded, so that every order that is CONFIRMED, PREPARING, READY or DELIVERED has
\* had a successful payment
C35_ConfirmedOnlyAfterPayment ==
    /\ [](\A oid \in DOMAIN orders :
             orders[oid].status \in ConfirmedStatuses => paid[oid] >= 1)
    /\ [][\A oid \in DOMAIN orders' :
             (orders'[oid].status = CONFIRMED
                /\ (oid \in DOMAIN orders => orders[oid].status # CONFIRMED))
             => (last'.op = "confirm_order" /\ last'.oid = oid
                   /\ last'.pay = "success")]_vars

\* C35, for confirm_order alone: the call leaves an order CONFIRMED only when the
\* payment succeeded, and a call whose payment failed or that raised leaves the status
C35_ConfirmOrderNeedsPayment ==
    [][\A oid \in OrderIds, payOk \in BOOLEAN :
         (Stored(oid) /\ ConfirmOrder(oid, payOk)) =>
            /\ (orders'[oid].status # orders[oid].status) =>
                  /\ payOk
                  /\ last'.pay = "success"
                  /\ orders[oid].status = PENDING
                  /\ orders'[oid].status = CONFIRMED
                  /\ paid'[oid] = paid[oid] + 1
            /\ ~payOk => (orders'[oid] = orders[oid] /\ paid' = paid)]_vars

\* confirm_order has confirmed an order after a successful payment
C35_ConfirmWitness ==
    /\ last.op = "confirm_order"
    /\ last.pay = "success"
    /\ Stored(last.oid)
    /\ orders[last.oid].status = CONFIRMED
    /\ paid[last.oid] = 1

\* C36: for every order the payment gateway reports success at most once: a successful
\* payment leaves the order not PENDING, no step makes an order PENDING again, and
\* confirm_order on an order that is not PENDING raises before the gateway is called
C36_AtMostOneSuccessfulPayment ==
    /\ [](\A oid \in DOMAIN orders :
             /\ paid[oid] <= 1
             /\ paid[oid] = 1 => orders[oid].status # PENDING)
    /\ [][\A oid \in DOMAIN orders :
             /\ (orders[oid].status # PENDING) =>
                   (oid \in DOMAIN orders' /\ orders'[oid].status # PENDING)
             /\ \A payOk \in BOOLEAN :
                   (orders[oid].status # PENDING /\ ConfirmOrder(oid, payOk)) =>
                      /\ last'.result = "raised"
                      /\ last'.pay = "none"
                      /\ last'.events = <<>>
                      /\ paid' = paid]_vars

\* confirm_order was rejected on an order whose payment had succeeded before
C36_Witness ==
    /\ last.op = "confirm_order"
    /\ last.result = "raised"
    /\ Stored(last.oid)
    /\ paid[last.oid] = 1
    /\ orders[last.oid].status \in ConfirmedStatuses

\* the statuses no transition leaves
TerminalStatuses == {DELIVERED, CANCELLED}

\* C37: an order never enters a status again that it has left, so that it makes at most
\* 4 successful status transitions; from every status that is not terminal a transition
\* is allowed; and an order that keeps being advanced ends DELIVERED or CANCELLED
C37_LifecycleEnds ==
    /\ [](/\ trail[Len(trail)] = orders[1].status
          /\ \A i, j \in DOMAIN trail : i # j => trail[i] # trail[j]
          /\ Len(trail) - 1 <= 4
          /\ orders[1].status \notin TerminalStatuses =>
                \E s \in OrderStatus : IsValidStatusTransition(orders[1].status, s))
    /\ [][orders'[1].status # orders[1].status =>
             /\ IsValidStatusTransition(orders[1].status, orders'[1].status)
             /\ \A i \in DOMAIN trail : trail[i] # orders'[1].status]_vars
    /\ <>(orders[1].status \in TerminalStatuses)

\* an order has gone through the four transitions to DELIVERED
C37_Witness ==
    /\ trail = <<PENDING, CONFIRMED, PREPARING, READY, DELIVERED>>
    /\ orders[1].status = DELIVERED

\* an order was cancelled after two transitions
C37_CancelledWitness ==
    /\ trail = <<PENDING, CONFIRMED, PREPARING, CANCELLED>>
    /\ orders[1].status = CANCELLED

\* how far a status is along the lifecycle: the number of transitions an order can
\* have made at most when it has the status
Stage(s) ==
    CASE s = PENDING   -> 0
      [] s = CONFIRMED -> 1
      [] s = PREPARING -> 2
      [] s = READY     -> 3
      [] OTHER         -> 4

\* C37, for the operations of the order service: every step that changes the status
\* of a stored order takes an allowed transition to a status further along the
\* lifecycle, so no sequence of them brings an order back to a status it has left
C37_WorkflowNeverMovesBackward ==
    [][\A oid \in DOMAIN orders :
         /\ oid \in DOMAIN orders'
         /\ orders'[oid].status # orders[oid].status =>
               /\ IsValidStatusTransition(orders[oid].status, orders'[oid].status)
               /\ Stage(orders'[oid].status) > Stage(orders[oid].status)]_vars

\* the number of lines of a request that name product p
LinesOf(items, p) == Cardinality({i \in DOMAIN items : items[i].product_id = p})

\* C38: when create_order succeeds on a request with two or more lines for one product,
\* the quantity it reserves of that product is the total quantity of the product over
\* the items of the order it has created
C38_ReservationCoversEveryLine ==
    [][\A in \in CreateInputs :
         (CreateOrder(in[1], in[2]) /\ last'.result = "order") =>
            \A p \in Products :
               LinesOf(in[2], p) >= 2 =>
                  inventory[p] - inventory'[p] = QuantityOf(orders'[last'.oid], p)]_vars

\* C38 for create_order of src/application/services.py
C38_ReservationCoversEveryLineLegacy ==
    [][\A in \in CreateInputs :
         (LegacyCreateOrder(in[1], in[2]) /\ last'.result = "order") =>
            \A p \in Products :
               LinesOf(in[2], p) >= 2 =>
                  inventory[p] - inventory'[p] = QuantityOf(orders'[last'.oid], p)]_vars

\* C38, what both create_order do: of a product with several lines they reserve the
\* quantity of the last line, while the order holds the quantity of every line
C38_LastLineReserved ==
    [][\A in \in CreateInputs :
         (CreateOrder(in[1], in[2]) /\ last'.result = "order") =>
            \A p \in Products :
               LinesOf(in[2], p) >= 2 =>
                  /\ \E i \in DOMAIN in[2] :
                        /\ in[2][i].product_id = p
                        /\ \A j \in DOMAIN in[2] : in[2][j].product_id = p => j <= i
                        /\ inventory[p] - inventory'[p] = in[2][i].quantity
                  /\ QuantityOf(orders'[last'.oid], p) = Ordered(in[2], p)]_vars

\* an order was created from two lines of one product
C38_TwoLinesWitness ==
    /\ last.op = "create_order"
    /\ last.result = "order"
    /\ Len(orders[last.oid].items) = 2
    /\ orders[last.oid].items[1].product_id = orders[last.oid].items[2].product_id

\* C39: update_item_quantity(pid, n) on a pending order: for a product the order has no
\* item of it raises; for n <= 0 it removes the item of the product and does not raise;
\* for n in 1..99 it sets the quantity of the item to n; for n > 99 it raises and leaves
\* the items as they were; no item is left with a quantity outside 1..99
C39_UpdateItemQuantity ==
    [][\A pid \in ProductIds, n \in UpdateQuantities :
         (orders[1].status = PENDING /\ OrderUpdateItemQuantity(pid, n)) =>
            LET before == orders[1].items
                after == orders'[1].items
                i == FindItemByProductId(before, pid)
            IN  /\ i = 0 => (last'.result = "raised" /\ orders' = orders)
                /\ (i # 0 /\ n <= 0) =>
                      /\ last'.result = "none"
                      /\ after = SelectSeq(before, LAMBDA it : it.product_id # pid)
                /\ (i # 0 /\ n >= MIN_QUANTITY /\ n <= MAX_QUANTITY) =>
                      /\ last'.result = "none"
                      /\ after = [before EXCEPT ![i].quantity = n]
                /\ (i # 0 /\ n > MAX_QUANTITY) =>
                      (last'.result = "raised" /\ orders' = orders)
                /\ \A k \in DOMAIN after : QuantityInBounds(after[k])]_vars

\* an update to 0 has removed the only item of an order that had held 99 of it
C39_Witness ==
    /\ last.op = "update_item_quantity"
    /\ last.result = "none"
    /\ orders[1].status = PENDING
    /\ orders[1].items = <<>>

\* an update to 100 was refused on an item of 99
C39_RefusedWitness ==
    /\ last.op = "update_item_quantity"
    /\ last.result = "raised"
    /\ orders[1].status = PENDING
    /\ \E k \in DOMAIN orders[1].items : orders[1].items[k].quantity = MAX_QUANTITY

====
